---- MODULE Spec2Model ----
(***************************************************************************)
(* Tree Trails in Prospect Park: the species dictionary builder            *)
(* (pluralize, tokenHyphen, constructTerm), the mention merger, the stop   *)
(* synthesizer and the curation filter of tree_trails_prospect_park.py.    *)
(*                                                                         *)
(* A Python str is modelled as a sequence of one-character strings, so     *)
(* that replace, split, title, the regular expressions of lineBreaks,      *)
(* joinSents and stripMarkup are computed character by character as        *)
(* Python computes them.                                                   *)
(***************************************************************************)
EXTENDS Integers, Sequences, FiniteSets, TLC

VARIABLES
    pc,             \* position of the script
    call,           \* arguments of the function being called (dictionary builder)
    ret,            \* its return value
    ents,           \* the entities of the document, in document order
    p_ents,         \* p['ents'] of the paragraph handed to the mention merger
    merged_ents,    \* p['merged_ents'] of that paragraph
    merged_first,   \* history: p['merged_ents'] after the first run
    runs,           \* how many times the merger has run on that paragraph
    tours,          \* the sections of tours, in order: [name, paragraphs]
    pos,            \* <<section, paragraph>> the process-tours loop is at
    k,              \* the loop variable k of the process-tours loop
    stops,          \* the stop list
    prev_stops,     \* history: the stop list before the last loop iteration
    last_p,         \* history: the paragraph the last loop iteration processed
    deletes,        \* the deletion list
    final_stops,    \* the final stop list
    kept,           \* history: for each final stop, its index in stops
    raised,         \* the exception that ended the script, or "none"
    final_tree_species, \* the species export
    dictionary,     \* tree_species while the script builds it
    addtl_names,    \* the manual addition list
    remove_name,    \* the manual removal list
    termlist,       \* the match rules written to patterns.jsonl
    doc_sents,      \* sents: the sentences of the document, in document order
    doc_sections    \* sections: the lists of sentences the document is split into

vars == <<pc, call, ret, ents, p_ents, merged_ents, merged_first, runs, tours, pos, k,
          stops, prev_stops, last_p, deletes, final_stops, kept, raised,
          final_tree_species, dictionary, addtl_names, remove_name, termlist,
          doc_sents, doc_sections>>

-----------------------------------------------------------------------------
(* Characters and the str methods the script uses.                         *)

NL == "\n"
\* '\xa0', the no-break space
NBSP == "nbsp"
SP == " "
HYPHEN == "-"

LowerLetters ==
    <<"a","b","c","d","e","f","g","h","i","j","k","l","m",
      "n","o","p","q","r","s","t","u","v","w","x","y","z">>
UpperLetters ==
    <<"A","B","C","D","E","F","G","H","I","J","K","L","M",
      "N","O","P","Q","R","S","T","U","V","W","X","Y","Z">>

IndexIn(c, letters) ==
    IF \E i \in 1..Len(letters) : letters[i] = c
    THEN CHOOSE i \in 1..Len(letters) : letters[i] = c
    ELSE 0

IsCased(c) == IndexIn(c, LowerLetters) > 0 \/ IndexIn(c, UpperLetters) > 0

lowerChar(c) ==
    LET i == IndexIn(c, UpperLetters) IN IF i = 0 THEN c ELSE LowerLetters[i]

upperChar(c) ==
    LET i == IndexIn(c, LowerLetters) IN IF i = 0 THEN c ELSE UpperLetters[i]

\* str.lower()
lower(t) == [i \in 1..Len(t) |-> lowerChar(t[i])]

\* str.title(): a cased character is upper-cased after an uncased one (or at
\* the start) and lower-cased after a cased one
title(t) ==
    [i \in 1..Len(t) |->
        IF i > 1 /\ IsCased(t[i-1]) THEN lowerChar(t[i]) ELSE upperChar(t[i])]

\* str.capitalize()
capitalize(t) ==
    [i \in 1..Len(t) |-> IF i = 1 THEN upperChar(t[i]) ELSE lowerChar(t[i])]

startswith(t, p) == Len(p) <= Len(t) /\ SubSeq(t, 1, Len(p)) = p

endswith(t, p) ==
    Len(p) <= Len(t) /\ SubSeq(t, Len(t) - Len(p) + 1, Len(t)) = p

\* the first index at which p occurs in t, 0 when it does not
find(t, p) ==
    LET hits == {i \in 1..(Len(t) - Len(p) + 1) : SubSeq(t, i, i + Len(p) - 1) = p}
    IN  IF hits = {} THEN 0 ELSE CHOOSE i \in hits : \A j \in hits : i <= j

\* p in t
contains(t, p) == find(t, p) > 0

\* str.replace(old, new), old non-empty: every non-overlapping occurrence,
\* left to right
RECURSIVE replace(_, _, _)
replace(t, old, new) ==
    LET i == find(t, old)
    IN  IF i = 0 THEN t
        ELSE SubSeq(t, 1, i - 1) \o new
             \o replace(SubSeq(t, i + Len(old), Len(t)), old, new)

\* str.split(sep), sep non-empty: empty pieces are kept
RECURSIVE split(_, _)
split(t, sep) ==
    LET i == find(t, sep)
    IN  IF i = 0 THEN <<t>>
        ELSE <<SubSeq(t, 1, i - 1)>> \o split(SubSeq(t, i + Len(sep), Len(t)), sep)

IsSpace(c) == c \in {SP, NL, NBSP}

\* str.split() without argument: pieces between runs of whitespace, no
\* empty piece
RECURSIVE splitWhitespace(_)
splitWhitespace(t) ==
    IF t = <<>> THEN <<>>
    ELSE IF IsSpace(t[1]) THEN splitWhitespace(Tail(t))
    ELSE LET ws == {i \in 1..Len(t) : IsSpace(t[i])}
             e  == IF ws = {} THEN Len(t) + 1
                   ELSE CHOOSE i \in ws : \A j \in ws : i <= j
         IN  <<SubSeq(t, 1, e - 1)>> \o splitWhitespace(SubSeq(t, e, Len(t)))

\* str.strip()
RECURSIVE strip(_)
strip(t) ==
    IF t = <<>> THEN t
    ELSE IF IsSpace(t[1]) THEN strip(Tail(t))
    ELSE IF IsSpace(t[Len(t)]) THEN strip(SubSeq(t, 1, Len(t) - 1))
    ELSE t

\* sep.join(pieces)
RECURSIVE join(_, _)
join(sep, pieces) ==
    IF pieces = <<>> THEN <<>>
    ELSE IF Len(pieces) = 1 THEN pieces[1]
    ELSE pieces[1] \o sep \o join(sep, Tail(pieces))

\* list.extend over a list of lists
RECURSIVE extendAll(_)
extendAll(lists) ==
    IF lists = <<>> THEN <<>> ELSE lists[1] \o extendAll(Tail(lists))

-----------------------------------------------------------------------------
(* Species dictionary builder: the match rules.                            *)

TREE_SPECIES == <<"T","R","E","E"," ","S","P","E","C","I","E","S">>
ALT_TREE_SPECIES == <<"A","L","T"," ">> \o TREE_SPECIES
TREE_COMMON_NAME ==
    <<"T","R","E","E"," ","C","O","M","M","O","N"," ","N","A","M","E">>

\* pluralize(text)
pluralize(text) ==
    IF endswith(text, <<"y">>) THEN replace(text, <<"y">>, <<"i","e","s">>)
    ELSE IF \E suffix \in {<<"c","h">>, <<"s">>, <<"s","h">>, <<"z">>, <<"x">>} :
                endswith(text, suffix)
         THEN text \o <<"e","s">>
    ELSE text \o <<"s">>

\* a token constraint {'LOWER': value} or {'ORTH': value}
Constraint(key, value) == [key |-> key, value |-> value]

\* tokenHyphen(text): tokens[0], the hyphen, tokens[1]
tokenHyphen(text) ==
    LET tokens == split(text, <<HYPHEN>>)
    IN  << Constraint("LOWER", lower(tokens[1])),
           Constraint("ORTH", <<HYPHEN>>),
           Constraint("LOWER", lower(tokens[2])) >>

\* the pattern of the full taxon name: one constraint per piece of split(' ')
speciesPatterns(term) ==
    LET words == split(term, <<SP>>)
    IN  [i \in 1..Len(words) |-> Constraint("LOWER", lower(words[i]))]

altPatternsNoPeriod(term) ==
    LET words == split(term, <<SP>>)
    IN  [i \in 1..Len(words) |->
            IF i = 1 THEN Constraint("LOWER", <<lowerChar(words[i][1])>>)
            ELSE Constraint("LOWER", lower(words[i]))]

\* the pattern with the genus abbreviated
altPatterns(term) ==
    LET words == split(term, <<SP>>)
    IN  [i \in 1..Len(words) |->
            IF i = 1
            THEN Constraint("LOWER", <<lowerChar(words[i][1])>> \o <<".">>)
            ELSE Constraint("LOWER", lower(words[i]))]

\* the pattern of a word of a common name
wordPatterns(s) ==
    IF contains(s, <<HYPHEN>>) THEN tokenHyphen(s)
    ELSE <<Constraint("LOWER", lower(s))>>

\* the singular pattern of a common name
commonPatterns(term) ==
    LET words == split(term, <<SP>>)
    IN  extendAll([i \in 1..Len(words) |-> wordPatterns(words[i])])

\* the plural pattern of a common name: only the last word is pluralized
pluralPatterns(term) ==
    LET words == splitWhitespace(term)
    IN  extendAll([i \in 1..Len(words) |->
            IF i # Len(words) THEN wordPatterns(words[i])
            ELSE <<Constraint("LOWER", pluralize(lower(words[i])))>>])

Rule(label, id, pattern) == [label |-> label, id |-> id, pattern |-> pattern]

\* constructTerm raises UnboundLocalError on an empty term with a known
\* label: listitem and patterns are bound only when term != ''
constructTermRaises(term, label) ==
    term = <<>> /\ label \in {TREE_SPECIES, ALT_TREE_SPECIES, TREE_COMMON_NAME}

\* constructTerm(term, label, id), for a term on which it does not raise
constructTerm(term, label, id) ==
    IF label \in {TREE_SPECIES, ALT_TREE_SPECIES}
    THEN << Rule(label, id, speciesPatterns(term)),
            Rule(label, id, altPatterns(term)) >>
    ELSE IF label = TREE_COMMON_NAME
    THEN << Rule(label, id, commonPatterns(term)),
            Rule(label, id, pluralPatterns(term)) >>
    ELSE <<>>

-----------------------------------------------------------------------------
(* Calls of the dictionary builder's functions on bounded inputs.          *)

\* longest generated word handed to pluralize
MaxWordLen == 3
\* most words in a generated species or common name
MaxWords == 2

\* lowercase words: every word over seven letters up to MaxWordLen, and four
\* tree names
Words ==
    UNION {[1..n -> {"a", "y", "s", "h", "c", "x", "z"}] : n \in 1..MaxWordLen}
    \cup {<<"o","a","k">>, <<"b","i","r","c","h">>, <<"c","h","e","r","r","y">>,
          <<"b","a","y","b","e","r","r","y">>}

Quercus == <<"Q","u","e","r","c","u","s">>
Alba == <<"a","l","b","a">>

\* the words names are built from: plain, ending in y, hyphenated once and
\* twice
NameWords ==
    {Quercus, Alba, <<"W","h","i","t","e">>, <<"I","v","y">>,
     <<"T","u","l","i","p","-","t","r","e","e">>,
     <<"J","a","c","k","-","i","n","-","b","o","x">>}

RECURSIVE NamesOf(_)
NamesOf(n) ==
    IF n = 1 THEN NameWords
    ELSE {w \o <<SP>> \o rest : w \in NameWords, rest \in NamesOf(n - 1)}

\* non-empty names: one to MaxWords words separated by single spaces
Names == UNION {NamesOf(n) : n \in 1..MaxWords}

NoCall == [fn |-> "none"]

\* the variables of the merger and of the tour pipeline, at rest
PipelineAtRest ==
    /\ ents = <<>>
    /\ p_ents = <<>>
    /\ merged_ents = <<>>
    /\ merged_first = <<>>
    /\ runs = 0
    /\ tours = <<>>
    /\ pos = <<0, 0>>
    /\ k = <<>>
    /\ stops = <<>>
    /\ prev_stops = <<>>
    /\ last_p = <<>>
    /\ deletes = {}
    /\ final_stops = <<>>
    /\ kept = <<>>
    /\ raised = "none"
    /\ final_tree_species = <<>>
    /\ dictionary = <<>>
    /\ addtl_names = <<>>
    /\ remove_name = <<>>
    /\ termlist = <<>>
    /\ doc_sents = <<>>
    /\ doc_sections = <<>>

PipelineUnchanged ==
    UNCHANGED <<ents, p_ents, merged_ents, merged_first, runs, tours, pos, k, stops,
                prev_stops, last_p, deletes, final_stops, kept, raised,
                final_tree_species, dictionary, addtl_names, remove_name, termlist,
                doc_sents, doc_sections>>

InitTerm ==
    /\ pc = "call"
    /\ \/ \E w \in Words : call = [fn |-> "pluralize", text |-> w]
       \/ \E t \in Names,
             l \in {TREE_SPECIES, ALT_TREE_SPECIES, TREE_COMMON_NAME},
             i \in {<<"Q","1">>, <<"x","1">>} :
              call = [fn |-> "constructTerm", term |-> t, label |-> l, id |-> i]
    /\ ret = <<>>
    /\ PipelineAtRest

CallPluralize ==
    /\ pc = "call"
    /\ call.fn = "pluralize"
    /\ ret' = pluralize(call.text)
    /\ pc' = "return"
    /\ UNCHANGED call
    /\ PipelineUnchanged

CallConstructTerm ==
    /\ pc = "call"
    /\ call.fn = "constructTerm"
    /\ ~constructTermRaises(call.term, call.label)
    /\ ret' = constructTerm(call.term, call.label, call.id)
    /\ pc' = "return"
    /\ UNCHANGED call
    /\ PipelineUnchanged

NextTerm == CallPluralize \/ CallConstructTerm

SpecTerm == InitTerm /\ [][NextTerm]_vars

-----------------------------------------------------------------------------
(* Claims about the dictionary builder, checked under SpecTerm.            *)

\* the plural form as the specification words it: only the trailing "y"
\* becomes "ies"
pluralTrailingY(w) ==
    IF endswith(w, <<"y">>) THEN SubSeq(w, 1, Len(w) - 1) \o <<"i","e","s">>
    ELSE IF \E suffix \in {<<"c","h">>, <<"s">>, <<"s","h">>, <<"z">>, <<"x">>} :
                endswith(w, suffix)
         THEN w \o <<"e","s">>
    ELSE w \o <<"s">>

\* C7: for every lowercase word w, pluralize(w) is w with only its trailing
\* "y" replaced by "ies", else w + "es" after ch, s, sh, z, x, else w + "s".
\* The code replaces every "y" of a word ending in "y", so this is violated.
C7_PluralizeTrailingY ==
    (pc = "return" /\ call.fn = "pluralize") => ret = pluralTrailingY(call.text)

\* C8: a non-empty taxon or alternate-taxon name yields exactly two rules
\* with the given label and id: rule A has one lowercase constraint per
\* space-separated word, rule B is rule A with the first constraint replaced
\* by the first letter of the first word, lowercased, plus a period.
C8_TaxonRules ==
    (pc = "return" /\ call.fn = "constructTerm"
        /\ call.label \in {TREE_SPECIES, ALT_TREE_SPECIES}) =>
    LET words == split(call.term, <<SP>>)
    IN  /\ Len(ret) = 2
        /\ \A r \in 1..2 :
              /\ ret[r].label = call.label
              /\ ret[r].id = call.id
              /\ Len(ret[r].pattern) = Len(words)
              /\ \A i \in 1..Len(words) : ret[r].pattern[i].key = "LOWER"
        /\ \A i \in 1..Len(words) : ret[1].pattern[i].value = lower(words[i])
        /\ ret[2].pattern[1].value = <<lowerChar(words[1][1]), ".">>
        /\ \A i \in 2..Len(words) : ret[2].pattern[i] = ret[1].pattern[i]
        /\ (call.term = Quercus \o <<SP>> \o Alba =>
              /\ ret[1].pattern =
                    << [key |-> "LOWER", value |-> <<"q","u","e","r","c","u","s">>],
                       [key |-> "LOWER", value |-> <<"a","l","b","a">>] >>
              /\ ret[2].pattern =
                    << [key |-> "LOWER", value |-> <<"q", ".">>],
                       [key |-> "LOWER", value |-> <<"a","l","b","a">>] >>)

\* C8 witness: constructTerm has returned the rules of "Quercus alba"
C8_Witness ==
    /\ pc = "return"
    /\ call.fn = "constructTerm"
    /\ call.label = TREE_SPECIES
    /\ call.term = Quercus \o <<SP>> \o Alba
    /\ Len(ret) = 2

\* C9: a common name yields exactly two rules; rule B's constraint sequence
\* is rule A's except that the final word's constraint is pluralized (also
\* when the final word is hyphenated).  The code gives a hyphenated final
\* word one unsplit constraint in rule B, so this is violated.
C9_CommonRules ==
    (pc = "return" /\ call.fn = "constructTerm" /\ call.label = TREE_COMMON_NAME) =>
    /\ Len(ret) = 2
    /\ Len(ret[2].pattern) = Len(ret[1].pattern)
    /\ LET n == Len(ret[1].pattern)
       IN  /\ \A i \in 1..(n - 1) : ret[2].pattern[i] = ret[1].pattern[i]
           /\ ret[2].pattern[n] =
                 [key |-> "LOWER", value |-> pluralize(ret[1].pattern[n].value)]

-----------------------------------------------------------------------------
(* The frozen species dictionary and the mention merger.                   *)

QuercusAlba == <<"Q","u","e","r","c","u","s"," ","a","l","b","a">>
AcerRubrum == <<"A","c","e","r"," ","r","u","b","r","u","m">>
Q1 == <<"Q","1">>
Q2 == <<"Q","2">>
Q3 == <<"Q","3">>
X1 == <<"x","1">>

\* tree_species after reshaping, additions and removals, with the ids of the
\* termlist loop: three records with a Wikidata id and common names, one
\* with a generated id and none
tree_species ==
    << [id |-> Q1, name |-> QuercusAlba, common_names |-> <<<<"W","h","i","t","e"," ","O","a","k">>>>],
       [id |-> Q2, name |-> AcerRubrum,
        common_names |-> <<<<"R","e","d"," ","M","a","p","l","e">>, <<"M","a","p","l","e">>>>],
       [id |-> Q3, name |-> <<"Q","u","e","r","c","u","s"," ","b","i","c","o","l","o","r">>,
        common_names |-> <<<<"S","w","a","m","p"," ","W","h","i","t","e"," ","O","a","k">>, <<"W","h","i","t","e"," ","O","a","k">>>>],
       [id |-> X1, name |-> <<"U","l","m","u","s"," ","p","r","o","c","e","r","a">>] >>

\* an entity of doc.ents as saved in ents
Ent(text, start_char, id, label) ==
    [text |-> text, start_char |-> start_char,
     end_char |-> start_char + Len(text), id |-> id, label |-> label]

\* p['merged_ents'] is a dict in insertion order: a sequence of
\* [id, ents] entries with distinct ids
hasKey(m, id) == \E i \in 1..Len(m) : m[i].id = id

getKey(m, id) == (CHOOSE i \in 1..Len(m) : m[i].id = id)

\* m[id] = v
setKey(m, id, v) ==
    IF hasKey(m, id)
    THEN [m EXCEPT ![getKey(m, id)] = [id |-> id, ents |-> v]]
    ELSE Append(m, [id |-> id, ents |-> v])

\* m[id].extend(v)
extendKey(m, id, v) ==
    [m EXCEPT ![getKey(m, id)] = [id |-> id, ents |-> @.ents \o v]]

\* getCommonBySpeciesId: the common names of every record with that id
RECURSIVE getCommonBySpeciesId(_, _)
getCommonBySpeciesId(id, species) ==
    IF species = <<>> THEN <<>>
    ELSE (IF species[1].id = id /\ "common_names" \in DOMAIN species[1]
          THEN species[1].common_names ELSE <<>>)
         \o getCommonBySpeciesId(id, Tail(species))

\* first pass: every TREE SPECIES entity seeds or joins the group of its id
RECURSIVE addSpecies(_, _)
addSpecies(m, pents) ==
    IF pents = <<>> THEN m
    ELSE LET e == pents[1]
         IN  addSpecies(
                 IF e.label # TREE_SPECIES THEN m
                 ELSE IF hasKey(m, e.id) THEN extendKey(m, e.id, <<e>>)
                 ELSE setKey(m, e.id, <<e>>),
                 Tail(pents))

\* x.title().replace("'S", "'s")
titleCase(x) == replace(title(x), <<"'","S">>, <<"'","s">>)

\* the comparison of a mention text with a dictionary common name
matchesCommon(text, c) ==
    titleCase(text) \in {pluralize(titleCase(c)), titleCase(c)}

\* the two entries added for a common name resolved to the species entity ent
commonFor(e, ent) ==
    << [text |-> e.text, label |-> TREE_COMMON_NAME, id |-> ent.id,
        start_char |-> e.start_char],
       [text |-> ent.label, label |-> TREE_SPECIES, id |-> ent.id] >>

\* the loop over the common names of one species entity: each matching name
\* extends (or sets) the group of ent
RECURSIVE matchNames(_, _, _, _)
matchNames(m, e, ent, cn) ==
    IF cn = <<>> THEN m
    ELSE matchNames(
             IF ~matchesCommon(e.text, cn[1]) THEN m
             ELSE IF hasKey(m, ent.id) THEN extendKey(m, ent.id, commonFor(e, ent))
             ELSE setKey(m, ent.id, commonFor(e, ent)),
             e, ent, Tail(cn))

\* the search of the species entities of the paragraph, in order, until one
\* of them has a matching common name: [m, found]
RECURSIVE searchSpecies(_, _, _)
searchSpecies(m, e, pents) ==
    IF pents = <<>> THEN [m |-> m, found |-> FALSE]
    ELSE LET ent == pents[1]
             cn == getCommonBySpeciesId(ent.id, tree_species)
         IN  IF ent.label = TREE_SPECIES
                /\ \E i \in 1..Len(cn) : matchesCommon(e.text, cn[i])
             THEN [m |-> matchNames(m, e, ent, cn), found |-> TRUE]
             ELSE searchSpecies(m, e, Tail(pents))

\* the fallback: the species of the mention's own id, {} when there is none
RECURSIVE lookupOwn(_, _)
lookupOwn(e, species) ==
    IF species = <<>> THEN <<>>
    ELSE LET ts == species[Len(species)]
         IN  IF e.id = ts.id
             THEN << [text |-> ts.name, label |-> TREE_SPECIES, id |-> e.id],
                     [text |-> e.text, label |-> TREE_COMMON_NAME, id |-> e.id,
                      start_char |-> e.start_char] >>
             ELSE lookupOwn(e, SubSeq(species, 1, Len(species) - 1))

\* the second pass with the two tests on the text exchanged: a name of
\* several words joins its own group or is left out, a name of one word is
\* searched for
mergeCommonSwapped(m, e, pents) ==
    IF e.label # TREE_COMMON_NAME THEN m
    ELSE IF contains(e.text, <<SP>>)
    THEN (IF hasKey(m, e.id) THEN extendKey(m, e.id, <<e>>) ELSE m)
    ELSE IF hasKey(m, e.id) THEN extendKey(m, e.id, <<e>>)
    ELSE LET r == searchSpecies(m, e, pents)
         IN  IF r.found THEN r.m
             ELSE setKey(m, e.id, lookupOwn(e, tree_species))

\* second pass, one TREE COMMON NAME entity
mergeCommon(m, e, pents) ==
    IF e.label # TREE_COMMON_NAME THEN m
    ELSE IF ~contains(e.text, <<SP>>)
    THEN (IF hasKey(m, e.id) THEN extendKey(m, e.id, <<e>>) ELSE m)
    ELSE IF hasKey(m, e.id) THEN extendKey(m, e.id, <<e>>)
    ELSE LET r == searchSpecies(m, e, pents)
         IN  IF r.found THEN r.m
             ELSE setKey(m, e.id, lookupOwn(e, tree_species))

RECURSIVE addCommons(_, _, _)
addCommons(m, rest, pents) ==
    IF rest = <<>> THEN m
    ELSE addCommons(mergeCommon(m, rest[1], pents), Tail(rest), pents)

mergedKeep(previous) == previous

\* p['merged_ents'] = {} at the start of each run, whatever it held
mergedReset(previous) == <<>>

\* the merge of one paragraph's entities; previous is what p['merged_ents']
\* held before
mergeEntities(previous, pents) ==
    addCommons(addSpecies(mergedReset(previous), pents), pents, pents)

-----------------------------------------------------------------------------
(* Running the merger on one paragraph's mention list, twice.              *)

\* most mentions in a generated paragraph
MaxEnts == 3

\* mentions by start offset: taxon names, a genus-abbreviated name, common
\* names of one and two words, an alternate name, a common name whose id the
\* dictionary does not have
MentionPool ==
    << Ent(<<"w","h","i","t","e"," ","o","a","k">>, 4, Q1, TREE_COMMON_NAME),
       Ent(QuercusAlba, 15, Q1, TREE_SPECIES),
       Ent(AcerRubrum, 30, Q2, TREE_SPECIES),
       Ent(<<"W","h","i","t","e"," ","o","a","k","s">>, 45, Q3, TREE_COMMON_NAME),
       Ent(<<"m","a","p","l","e">>, 60, Q2, TREE_COMMON_NAME),
       Ent(<<"Q","."," ","a","l","b","a">>, 70, Q1, TREE_SPECIES),
       Ent(<<"A","c","e","r"," ","r","u","b","r","a">>, 80, Q2, ALT_TREE_SPECIES),
       Ent(<<"S","c","o","t","s"," ","p","i","n","e","s">>, 90, <<"Q","9">>, TREE_COMMON_NAME) >>

\* the members of pool at the indices of chosen, in pool order
RECURSIVE pick(_, _, _)
pick(pool, chosen, i) ==
    IF i > Len(pool) THEN <<>>
    ELSE (IF i \in chosen THEN <<pool[i]>> ELSE <<>>) \o pick(pool, chosen, i + 1)

DictionaryAtRest == call = NoCall /\ ret = <<>>

ToursAtRest ==
    /\ ents = <<>>
    /\ tours = <<>>
    /\ pos = <<0, 0>>
    /\ k = <<>>
    /\ stops = <<>>
    /\ prev_stops = <<>>
    /\ last_p = <<>>
    /\ deletes = {}
    /\ final_stops = <<>>
    /\ kept = <<>>
    /\ raised = "none"
    /\ final_tree_species = <<>>
    /\ dictionary = <<>>
    /\ addtl_names = <<>>
    /\ remove_name = <<>>
    /\ termlist = <<>>
    /\ doc_sents = <<>>
    /\ doc_sections = <<>>

InitMerge ==
    /\ pc = "merge"
    /\ p_ents \in
          {pick(MentionPool, c, 1) :
              c \in {c \in SUBSET (1..Len(MentionPool)) : Cardinality(c) <= MaxEnts}}
    /\ merged_ents = <<>>
    /\ merged_first = <<>>
    /\ runs = 0
    /\ DictionaryAtRest
    /\ ToursAtRest

\* one run of the merge loop on the paragraph
RunMerger ==
    /\ pc = "merge"
    /\ runs < 2
    /\ merged_ents' = mergeEntities(merged_ents, p_ents)
    /\ merged_first' = IF runs = 0 THEN merged_ents' ELSE merged_first
    /\ runs' = runs + 1
    /\ UNCHANGED <<pc, p_ents, call, ret>>
    /\ UNCHANGED <<ents, tours, pos, k, stops, prev_stops, last_p, deletes,
                   final_stops, kept, raised, final_tree_species>>
    /\ UNCHANGED <<dictionary, addtl_names, remove_name, termlist, doc_sents, doc_sections>>

\* the set of entries of the group of id, {} when m has no such key
groupSet(m, id) ==
    IF hasKey(m, id)
    THEN {m[getKey(m, id)].ents[i] : i \in 1..Len(m[getKey(m, id)].ents)}
    ELSE {}

keySet(m) == {m[i].id : i \in 1..Len(m)}

\* C10: the second run of the merger on the same mention list and dictionary
\* yields the same key set and, per species id, the same set of mentions as
\* the first run.
C10_MergeTwice ==
    runs = 2 =>
        /\ keySet(merged_ents) = keySet(merged_first)
        /\ \A id \in keySet(merged_first) :
              groupSet(merged_ents, id) = groupSet(merged_first, id)

\* C10 witness: two runs on a paragraph in which a two-word common name was
\* resolved (to a species of the paragraph, or to its own id)
C10_Witness ==
    /\ runs = 2
    /\ \E i \in 1..Len(merged_ents) :
          \E j \in 1..Len(merged_ents[i].ents) :
              "end_char" \notin DOMAIN merged_ents[i].ents[j]

\* no other species or common-name mention of the paragraph has the id of e,
\* so that no group of that id exists when the second pass reaches e
alone(e) ==
    \A i \in 1..Len(p_ents) :
        (p_ents[i] # e /\ p_ents[i].label \in {TREE_SPECIES, TREE_COMMON_NAME})
        => p_ents[i].id # e.id

\* the ids of the groups that hold the mention e as a common name
groupsWith(m, e) ==
    {m[i].id : i \in {i \in 1..Len(m) :
        \E j \in 1..Len(m[i].ents) :
            /\ m[i].ents[j].label = TREE_COMMON_NAME
            /\ m[i].ents[j].text = e.text
            /\ "start_char" \in DOMAIN m[i].ents[j]
            /\ m[i].ents[j].start_char = e.start_char}}

\* the species mentions of the paragraph one of whose dictionary common
\* names is the text of e, title-cased, in the singular or the plural
matching(e) ==
    {i \in 1..Len(p_ents) :
        /\ p_ents[i].label = TREE_SPECIES
        /\ \E c \in 1..Len(getCommonBySpeciesId(p_ents[i].id, tree_species)) :
               matchesCommon(e.text, getCommonBySpeciesId(p_ents[i].id, tree_species)[c])}

inDictionary(id) == \E i \in 1..Len(tree_species) : tree_species[i].id = id

\* what becomes of a searched mention: it joins the group of the first
\* matching species of the paragraph, else it gets a group for its own id,
\* which holds it when the id is in the dictionary
searched(m, e) ==
    IF matching(e) # {}
    THEN groupsWith(m, e)
         = {p_ents[CHOOSE i \in matching(e) : \A j \in matching(e) : i <= j].id}
    ELSE IF inDictionary(e.id) THEN groupsWith(m, e) = {e.id}
    ELSE groupsWith(m, e) = {}

\* C14 as stated: a common-name mention whose id has no group in the
\* paragraph is dropped when its text has more than one word; when it is a
\* single word it is compared with the dictionary common names of the species
\* of the paragraph and merged into the matching group, else placed in a new
\* group for its own id when that id is in the dictionary.
C14_MultiWordDropped ==
    runs >= 1 =>
        \A i \in 1..Len(p_ents) :
            (p_ents[i].label = TREE_COMMON_NAME /\ alone(p_ents[i]))
            => IF contains(p_ents[i].text, <<SP>>)
               THEN groupsWith(merged_ents, p_ents[i]) = {}
               ELSE searched(merged_ents, p_ents[i])

\* C14 amended: a common-name mention whose id has no group in the paragraph
\* is dropped when its text is a single word; when it has more than one word
\* it is compared with the dictionary common names of the species of the
\* paragraph and merged into the group of the first matching species, else
\* its own id gets a group, which holds the species name and the mention when
\* the id is in the dictionary and is empty when it is not.
C14_SingleWordDropped ==
    runs >= 1 =>
        \A i \in 1..Len(p_ents) :
            (p_ents[i].label = TREE_COMMON_NAME /\ alone(p_ents[i]))
            => IF ~contains(p_ents[i].text, <<SP>>)
               THEN groupsWith(merged_ents, p_ents[i]) = {}
                    /\ ~hasKey(merged_ents, p_ents[i].id)
               ELSE /\ searched(merged_ents, p_ents[i])
                    /\ matching(p_ents[i]) = {}
                       => /\ hasKey(merged_ents, p_ents[i].id)
                          /\ Len(merged_ents[getKey(merged_ents, p_ents[i].id)].ents)
                             = IF inDictionary(p_ents[i].id) THEN 2 ELSE 0

\* C14 witness: a paragraph with a single-word common name that was dropped
\* and a two-word one that joined the group of another id's species
C14_Witness ==
    /\ runs >= 1
    /\ \E i, j \in 1..Len(p_ents) :
          /\ p_ents[i].label = TREE_COMMON_NAME /\ alone(p_ents[i])
          /\ ~contains(p_ents[i].text, <<SP>>)
          /\ groupsWith(merged_ents, p_ents[i]) = {}
          /\ p_ents[j].label = TREE_COMMON_NAME /\ alone(p_ents[j])
          /\ contains(p_ents[j].text, <<SP>>)
          /\ matching(p_ents[j]) # {}
          /\ groupsWith(merged_ents, p_ents[j]) # {p_ents[j].id}
          /\ groupsWith(merged_ents, p_ents[j]) # {}

-----------------------------------------------------------------------------
(* Rich text, titles, lead-ins and excerpts of the stop synthesizer.       *)

\* bold(text) and italic(text) with formatting = 'memento'
bold(text) == <<"<","b",">">> \o text \o <<"<","/","b",">">>

italic(text) ==
    <<"<","i"," ","s","t","y","l","e","=","\"","c","o","l","o","r",":"," ","r","g","b","(","1","5","6",","," ","3","9",","," ","1","7","6",")",";","\"",">">>
    \o text \o <<"<","/","i",">">>

\* the characters of text at the indices in keep, in order
keepIndices(text, keep) ==
    LET tagged == SelectSeq([i \in 1..Len(text) |-> <<i, text[i]>>],
                            LAMBDA pair : pair[1] \in keep)
    IN  [i \in 1..Len(tagged) |-> tagged[i][2]]

\* re.sub(c + c + '+', c + c, text) for '\n', re.sub(c + '+', c, text) for
\* ' ': a run of at least least characters c becomes exactly least of them,
\* so a character goes when it and the least before it are all c
collapseRuns(text, c, least) ==
    keepIndices(text,
        {i \in 1..Len(text) : ~(i > least /\ \A j \in (i - least)..i : text[j] = c)})

\* lineBreaks(text): re.sub('\xa0', '', text), then re.sub('^\n+', '', text),
\* then re.sub('\n\n+', '\n\n', text)
lineBreaks(text) ==
    LET plain == SelectSeq(text, LAMBDA c : c # NBSP)
        stopstart == {i \in 1..Len(plain) : \A j \in 1..i : plain[j] = NL}
    IN  collapseRuns(keepIndices(plain, (1..Len(plain)) \ stopstart), NL, 2)

\* joinSents(sents)
joinSents(sents) ==
    collapseRuns(join(<<SP>>, [i \in 1..Len(sents) |-> sents[i].text]), SP, 1)

\* Python's None
None == <<"None">>

\* the name of the last record of species with that id, None when there is
\* none
RECURSIVE nameOfId(_, _)
nameOfId(id, species) ==
    IF species = <<>> THEN None
    ELSE IF species[Len(species)].id = id THEN species[Len(species)].name
    ELSE nameOfId(id, SubSeq(species, 1, Len(species) - 1))

\* the texts of the entries of merged_ent with a label in labels, in order
RECURSIVE textsOf(_, _)
textsOf(merged_ent, labels) ==
    IF merged_ent = <<>> THEN <<>>
    ELSE (IF merged_ent[1].label \in labels THEN <<merged_ent[1].text>> ELSE <<>>)
         \o textsOf(Tail(merged_ent), labels)

\* the species createTitle ends with: the name found for the last entry
\* whose id is in the dictionary
RECURSIVE titleSpecies(_, _)
titleSpecies(merged_ent, found) ==
    IF merged_ent = <<>> THEN found
    ELSE titleSpecies(Tail(merged_ent),
             IF nameOfId(merged_ent[1].id, tree_species) # None
             THEN nameOfId(merged_ent[1].id, tree_species) ELSE found)

\* createTitle(merged_ent): the titles it can return.  commons[0] of
\* list(set(commons)) is whichever common name the set's iteration yields
\* first.  The empty set: title is unbound and the return raises.
createTitle(merged_ent) ==
    LET commons == textsOf(merged_ent, {TREE_COMMON_NAME})
        species == titleSpecies(merged_ent, None)
    IN  IF Len(commons) > 0
        THEN {IF species # None
              THEN capitalize(commons[i]) \o <<" ", "(">> \o capitalize(species) \o <<")">>
              ELSE capitalize(commons[i]) : i \in 1..Len(commons)}
        ELSE IF species # None THEN {capitalize(species)}
        ELSE {}

\* what one run of the script can get from createTitle for the non-empty
\* groups of a paragraph, in the order of the dict
RECURSIVE titlesOf(_)
titlesOf(m) ==
    IF m = <<>> THEN {<<>>}
    ELSE IF m[1].ents = <<>> THEN titlesOf(Tail(m))
    ELSE {<<t>> \o rest :
             t \in IF createTitle(m[1].ents) = {} THEN {<<"UnboundLocalError">>}
                    ELSE createTitle(m[1].ents),
             rest \in titlesOf(Tail(m))}

\* two runs of the script call createTitle on the groups the merger built
\* for the paragraph; ret holds what the first and the second run got
TitleGroups ==
    /\ pc = "merge"
    /\ runs = 2
    /\ \E first \in titlesOf(merged_ents) :
          \E second \in titlesOf(merged_ents) :
              ret' = <<first, second>>
    /\ pc' = "titled"
    /\ UNCHANGED <<call, p_ents, merged_ents, merged_first, runs>>
    /\ UNCHANGED <<ents, tours, pos, k, stops, prev_stops, last_p, deletes,
                   final_stops, kept, raised, final_tree_species>>
    /\ UNCHANGED <<dictionary, addtl_names, remove_name, termlist, doc_sents, doc_sections>>

NextMerge == RunMerger \/ TitleGroups

SpecMerge == InitMerge /\ [][NextMerge]_vars

\* C18: createTitle is a deterministic function of the merged group: two runs
\* on the same group, a group with two or more distinct common-name mention
\* texts included, return the same title.  The first element of
\* list(set(commons)) depends on the hash seed of the run, so this is
\* violated.
C18_TitleDeterministic ==
    pc = "titled" => ret[1] = ret[2]

\* the distinct members of texts, in order of first appearance
RECURSIVE distinct(_, _)
distinct(texts, seen) ==
    IF texts = <<>> THEN seen
    ELSE distinct(Tail(texts),
             IF \E i \in 1..Len(seen) : seen[i] = texts[1] THEN seen
             ELSE Append(seen, texts[1]))

\* excerpt.replace(text, markup) for each text of one label
RECURSIVE wrapTexts(_, _, _)
wrapTexts(excerpt, texts, label) ==
    IF texts = <<>> THEN excerpt
    ELSE wrapTexts(
             IF label \in {TREE_SPECIES, ALT_TREE_SPECIES}
             THEN replace(excerpt, texts[1], bold(italic(texts[1])))
             ELSE IF label = TREE_COMMON_NAME
             THEN replace(excerpt, texts[1], italic(texts[1]))
             ELSE excerpt,
             Tail(texts), label)

\* the loop over u_ents.items()
RECURSIVE wrapLabels(_, _, _)
wrapLabels(excerpt, merged_ent, labels) ==
    IF labels = <<>> THEN excerpt
    ELSE wrapLabels(
             wrapTexts(excerpt, distinct(textsOf(merged_ent, {labels[1]}), <<>>),
                       labels[1]),
             merged_ent, Tail(labels))

\* createExcerpt(paragraph, merged_ent); the keys of u_ents are the labels
\* of merged_ent in order of first appearance
createExcerpt(paragraph, merged_ent) ==
    wrapLabels(lineBreaks(joinSents(paragraph.sents)), merged_ent,
               distinct([i \in 1..Len(merged_ent) |-> merged_ent[i].label], <<>>))

\* getSpecies(merged_ent, tree_species)
RECURSIVE getSpecies(_, _)
getSpecies(merged_ent, found) ==
    IF merged_ent = <<>> THEN found
    ELSE getSpecies(Tail(merged_ent),
             IF merged_ent[1].label = TREE_SPECIES
                /\ nameOfId(merged_ent[1].id, tree_species) # None
             THEN nameOfId(merged_ent[1].id, tree_species) ELSE found)

\* the length of a lead-in before the ellipsis
LeadInLength == 35

Ellipsis == <<".", ".", ".">>

\* text[0:n]
prefix(text, n) == SubSeq(text, 1, IF Len(text) < n THEN Len(text) ELSE n)

\* createLeadIn(p)
createLeadIn(p) ==
    prefix(strip(replace(p.sents[1].text, <<NL>>, <<SP>>)), LeadInLength)
    \o Ellipsis

\* createStop(paragraph, merged_ent, id, tree_species) with the title chosen
\* and stop['tour'] set
createStop(paragraph, merged_ent, chosen_title, tour_name) ==
    [title |-> chosen_title,
     lead_in |-> createLeadIn(paragraph),
     excerpt |-> createExcerpt(paragraph, merged_ent),
     species |-> getSpecies(merged_ent, None),
     tour |-> tour_name]

\* the stops at the end of the list that share the last stop's lead-in,
\* counted backwards from the last but one
RECURSIVE sameLeadInRun(_, _)
sameLeadInRun(list, i) ==
    IF i >= 1 /\ list[i].lead_in = list[Len(list)].lead_in
    THEN 1 + sameLeadInRun(list, i - 1)
    ELSE 0

\* the excerpts of the last stop and of the stops before it with the same
\* lead-in, extended by text; the walk raises IndexError when it passes the
\* head of the list.  normalise tells whether the result goes through
\* lineBreaks (appendNoEntPara) or not (the curation filter).
appendToLast(list, text, normalise) ==
    IF list = <<>> THEN [stops |-> list, raised |-> "IndexError"]
    ELSE LET n == Len(list)
             run == IF n > 1 THEN sameLeadInRun(list, n - 1) ELSE 0
         IN  [stops |->
                 [i \in 1..n |->
                     IF i >= n - run
                     THEN [list[i] EXCEPT !.excerpt =
                              IF normalise THEN lineBreaks(@ \o text) ELSE @ \o text]
                     ELSE list[i]],
              raised |-> IF n > 1 /\ run = n - 1 THEN "IndexError" ELSE "none"]

appendNoEntParaUnchanged(list, p) ==
    [stops |-> list, raised |-> "none"]

\* appendNoEntPara(stops, p): [stops, raised]
appendNoEntPara(list, p) ==
    appendToLast(list, <<NL, NL>> \o joinSents(p.sents), TRUE)

\* re.sub('<.*?>', '', text): from a "<", the shortest stretch up to a ">"
\* on the same line; tagEnd is where the match that starts at i ends, 0 when
\* none starts there
tagEnd(text, i) ==
    LET ends == {j \in (i + 1)..Len(text) : text[j] \in {">", NL}}
        e == IF ends = {} THEN 0 ELSE CHOOSE j \in ends : \A h \in ends : j <= h
    IN  IF text[i] = "<" /\ e > 0 /\ text[e] = ">" THEN e ELSE 0

RECURSIVE removeTags(_)
removeTags(text) ==
    LET starts == {i \in 1..Len(text) : tagEnd(text, i) > 0}
    IN  IF starts = {} THEN text
        ELSE LET i == CHOOSE i \in starts : \A j \in starts : i <= j
             IN  SubSeq(text, 1, i - 1)
                 \o removeTags(SubSeq(text, tagEnd(text, i) + 1, Len(text)))

\* stripMarkup(text)
stripMarkup(text) ==
    removeTags(replace(replace(text, <<"*", "*">>, <<>>), <<"_">>, <<>>))
-----------------------------------------------------------------------------
(* The document: introduction, four tours, back matter, already split into *)
(* sections and paragraphs of sentences with character offsets.            *)

\* most paragraphs after the headers of the four tours together
MaxBody == 2

\* the markers the script splits on
TOUR == <<"T","O","U","R">>
FOOTNOTE == <<"F","O","O","T","N","O","T","E">>
TABLE == <<"T","A","B","L","E">>
INTRODUCTION == <<"I","N","T","R","O","D","U","C","T","I","O","N">>
WORD_ABOUT == <<"W","O","R","D"," ","A","B","O","U","T">>
A_WORD_ABOUT == <<"A"," ","W","O","R","D"," ","A","B","O","U","T">>
PageTitle == <<"T","r","e","e"," ","T","r","a","i","l","s"," ","i","n"," ","P","r","o","s","p","e","c","t"," ","P","a","r","k">>
TopOfPage == <<"T","o","p"," ","o","f"," ","p","a","g","e">>

\* the keys of tours
intro == <<"i","n","t","r","o">>
back_matter == <<"b","a","c","k","_","m","a","t","t","e","r">>
TourNames == << <<"1">>, <<"2">>, <<"3">>, <<"4">> >>

\* a mention of a paragraph: at is its offset from the paragraph's start
Mention(text, at, id, label) == [text |-> text, at |-> at, id |-> id, label |-> label]

\* a paragraph as written: its sentences and its mentions
Written(texts, mentions) == [sents |-> texts, mentions |-> mentions]

\* the introduction: the title page, the table of contents, the introduction
IntroText ==
    << Written(<<<<"H","o","m","e"," ","T","r","e","e"," ","T","r","a","i","l","s"," ","i","n"," ","P","r","o","s","p","e","c","t"," ","P","a","r","k",".">>>>, <<>>),
       Written(<<<<NL,NL,"T","A","B","L","E"," ","O","F"," ","C","O","N","T","E","N","T","S",".">>>>, <<>>),
       Written(<<<<NL,NL,"I","N","T","R","O","D","U","C","T","I","O","N",".">>, <<"T","r","e","e","s",".">>>>, <<>>) >>

\* the back matter: the footnote and the word about the author
BackText ==
    << Written(<<<<NL,NL,"F","O","O","T","N","O","T","E"," ","T","O"," ","T","R","E","E"," ","T","R","A","I","L","S",".">>, <<"N","o","t","e","s",".">>>>, <<>>),
       Written(<<<<NL,NL,"A"," ","W","O","R","D"," ","A","B","O","U","T"," ","T","H","E"," ","A","U","T","H","O","R",".">>, <<"T","o","p"," ","o","f"," ","p","a","g","e">>>>, <<>>) >>

\* the paragraph a tour section starts with
HeaderText(name) ==
    Written(<< <<NL, NL>> \o TOUR \o <<SP>> \o name \o <<".">> >>, <<>>)

\* the paragraphs a tour can continue with: one without a tree, two with
\* the same first sentence and one species, one with two species, one with
\* a two-word common name only
BodyPool ==
    << Written(<<<<NL,NL,NL,"W","a","l","k",NBSP,"o","n",".">>>>, <<>>),
       Written(<<<<NL,NL,"L","o","o","k",".">>, <<"T","h","e"," ","w","h","i","t","e"," ","o","a","k"," ","i","s"," ","Q","u","e","r","c","u","s"," ","a","l","b","a",".">>>>,
               <<Mention(<<"w","h","i","t","e"," ","o","a","k">>, 12, Q1, TREE_COMMON_NAME),
                 Mention(QuercusAlba, 25, Q1, TREE_SPECIES)>>),
       Written(<<<<NL,NL,"L","o","o","k",".">>, <<"Q","u","e","r","c","u","s"," ","a","l","b","a",".">>>>,
               <<Mention(QuercusAlba, 8, Q1, TREE_SPECIES)>>),
       Written(<<<<NL,NL,"S","e","e"," ","t","h","e"," ","A","c","e","r"," ","r","u","b","r","u","m"," ","a","n","d"," ","t","h","e"," ","Q","u","e","r","c","u","s"," ","a","l","b","a",".">>>>,
               <<Mention(AcerRubrum, 10, Q2, TREE_SPECIES),
                 Mention(QuercusAlba, 30, Q1, TREE_SPECIES)>>),
       Written(<<<<NL,NL,"R","e","d"," ","m","a","p","l","e","s",".">>>>,
               <<Mention(<<"R","e","d"," ","m","a","p","l","e","s">>, 2, Q2, TREE_COMMON_NAME)>>) >>

\* the sequences of at most n pool paragraphs
RECURSIVE Bodies(_)
Bodies(n) ==
    IF n = 0 THEN {<<>>}
    ELSE {<<>>} \cup {<<BodyPool[i]>> \o b : i \in 1..Len(BodyPool), b \in Bodies(n - 1)}

\* the ways to hand n paragraphs in order to the tours
Placements(n) ==
    {a \in [1..n -> 1..Len(TourNames)] : \A i \in 1..n, j \in 1..n : i < j => a[i] <= a[j]}

\* the paragraphs of body that placement a hands to tour t
bodyOf(body, a, t) ==
    SelectSeq([i \in 1..Len(body) |-> <<a[i], body[i]>>], LAMBDA x : x[1] = t)

\* a document: for each section, its paragraphs as written
Document(body, a) ==
    <<IntroText>>
    \o [t \in 1..Len(TourNames) |->
           <<HeaderText(TourNames[t])>>
           \o [i \in 1..Len(bodyOf(body, a, t)) |-> bodyOf(body, a, t)[i][2]]]
    \o <<BackText>>

\* an id no record of the dictionary has: a rule of an earlier run, left in
\* patterns.jsonl, which line 448 opens to append
Q9 == <<"Q","9">>

\* paragraphs with a mention the dictionary does not know, with a common
\* name before the species of another tree, with two forms of one common
\* name
OddBodies ==
    << Written(<<<<NL,NL,"T","h","e"," ","Q","u","e","r","c","u","s"," ","a","l","b","a"," ","a","n","d"," ","a"," ","P","i","n","u","s"," ","r","i","g","i","d","a",".">>>>,
               <<Mention(QuercusAlba, 6, Q1, TREE_SPECIES),
                 Mention(<<"P","i","n","u","s"," ","r","i","g","i","d","a">>, 25, Q9, TREE_SPECIES)>>),
       Written(<<<<NL,NL,"S","c","o","t","s"," ","p","i","n","e","s"," ","a","n","d"," ","t","h","e"," ","Q","u","e","r","c","u","s"," ","a","l","b","a",".">>>>,
               <<Mention(<<"S","c","o","t","s"," ","p","i","n","e","s">>, 2, Q9, TREE_COMMON_NAME),
                 Mention(QuercusAlba, 22, Q1, TREE_SPECIES)>>),
       Written(<<<<NL,NL,"R","e","d"," ","m","a","p","l","e","s"," ","a","n","d"," ","t","h","e"," ","Q","u","e","r","c","u","s"," ","a","l","b","a",".">>>>,
               <<Mention(<<"R","e","d"," ","m","a","p","l","e","s">>, 2, Q2, TREE_COMMON_NAME),
                 Mention(QuercusAlba, 21, Q1, TREE_SPECIES)>>),
       Written(<<<<NL,NL,"W","h","i","t","e"," ","o","a","k","s",".">>, <<"A"," ","w","h","i","t","e"," ","o","a","k"," ","i","s"," ","Q","u","e","r","c","u","s"," ","a","l","b","a",".">>>>,
               <<Mention(<<"W","h","i","t","e"," ","o","a","k","s">>, 2, Q1, TREE_COMMON_NAME),
                 Mention(<<"w","h","i","t","e"," ","o","a","k">>, 16, Q1, TREE_COMMON_NAME),
                 Mention(QuercusAlba, 29, Q1, TREE_SPECIES)>>) >>

\* the first paragraph of a tour whose marker does not open its sentence
LateHeader(name) ==
    Written(<< <<NL,NL,"N","o","w"," ","f","o","r"," ">> \o TOUR \o <<SP>> \o name \o <<".">> >>, <<>>)

\* the first paragraph of a tour with a tree named in the sentence after the
\* marker
HeaderWithTree(name) ==
    Written(<< <<NL, NL>> \o TOUR \o <<SP>> \o name \o <<".">>, <<"Q","u","e","r","c","u","s"," ","a","l","b","a",".">> >>,
            <<Mention(QuercusAlba, 10, Q1, TREE_SPECIES)>>)

\* a paragraph whose tree the dictionary does not know, by its taxon name and
\* by a common name
UnknownTree ==
    Written(<<<<NL,NL,"S","c","o","t","s"," ","p","i","n","e","s"," ","a","r","e"," ","P","i","n","u","s"," ","r","i","g","i","d","a",".">>>>,
            <<Mention(<<"S","c","o","t","s"," ","p","i","n","e","s">>, 2, Q9, TREE_COMMON_NAME),
              Mention(<<"P","i","n","u","s"," ","r","i","g","i","d","a">>, 18, Q9, TREE_SPECIES)>>)

\* documents with one odd paragraph in tour 1, one whose tour 2 opens with
\* text before the marker, one whose tour 2 opens with a tree in the marker's
\* paragraph, and one with two paragraphs of the same first sentence and a
\* paragraph without entities after them
OddDocuments ==
    {Document(<<OddBodies[i]>>, <<1>>) : i \in 1..Len(OddBodies)}
    \cup {[Document(<<BodyPool[3]>>, <<1>>) EXCEPT ![3][1] = LateHeader(TourNames[2])]}
    \cup {[Document(<<>>, <<>>) EXCEPT ![3][1] = HeaderWithTree(TourNames[2])]}
    \cup {Document(<<UnknownTree>>, <<1>>)}
    \cup {Document(<<BodyPool[2], BodyPool[3], BodyPool[1]>>, <<1, 1, 1>>)}

Documents ==
    UNION {{Document(body, a) : a \in Placements(Len(body))} : body \in Bodies(MaxBody)}
    \cup OddDocuments

\* where the next sentence starts: one that opens with a line break follows
\* the last directly, another one comes after a space
nextStart(end, text) == IF startswith(text, <<NL>>) THEN end ELSE end + 1

\* sents (lines 511-517) for the sentences texts, the first starting at at
RECURSIVE placeSents(_, _)
placeSents(texts, at) ==
    IF texts = <<>> THEN <<>>
    ELSE <<[text |-> texts[1], start_char |-> at, end_char |-> at + Len(texts[1])]>>
         \o (IF Len(texts) = 1 THEN <<>>
             ELSE placeSents(Tail(texts), nextStart(at + Len(texts[1]), texts[2])))

\* a paragraph with its offsets (lines 570-572)
Paragraph(sents) ==
    [sents |-> sents, start_char |-> sents[1].start_char,
     end_char |-> sents[Len(sents)].end_char]

\* the paragraphs of the written ones, the first starting at at
RECURSIVE placeParagraphs(_, _)
placeParagraphs(written, at) ==
    IF written = <<>> THEN <<>>
    ELSE LET p == Paragraph(placeSents(written[1].sents, at))
         IN  <<p>> \o (IF Len(written) = 1 THEN <<>>
                       ELSE placeParagraphs(Tail(written),
                                nextStart(p.end_char, written[2].sents[1])))

\* the entities of the written paragraphs, placed as their paragraphs are
RECURSIVE placeEnts(_, _)
placeEnts(written, placed) ==
    IF written = <<>> THEN <<>>
    ELSE [i \in 1..Len(written[1].mentions) |->
             Ent(written[1].mentions[i].text,
                 placed[1].start_char + written[1].mentions[i].at,
                 written[1].mentions[i].id, written[1].mentions[i].label)]
         \o placeEnts(Tail(written), Tail(placed))

\* the paragraphs of all sections in order
RECURSIVE flatten(_)
flatten(lists) == IF lists = <<>> THEN <<>> ELSE lists[1] \o flatten(Tail(lists))

\* tours after lines 537-572: each section with its paragraphs
Sections(document) ==
    LET placed == placeParagraphs(flatten(document), 0)
        before(s) == Len(flatten(SubSeq(document, 1, s - 1)))
    IN  [s \in 1..Len(document) |->
            [name |-> (<<intro>> \o TourNames \o <<back_matter>>)[s],
             paragraphs |-> SubSeq(placed, before(s) + 1, before(s) + Len(document[s]))]]

\* ents after lines 499-508
Entities(document) ==
    placeEnts(flatten(document), placeParagraphs(flatten(document), 0))

-----------------------------------------------------------------------------
(* Entities by paragraph (lines 578-585) and the merge loop over the whole *)
(* document (lines 601-647).                                               *)

\* p['ents']: the entities that start within the paragraph
entsWithin(p, all) ==
    SelectSeq(all, LAMBDA e : e.start_char >= p.start_char /\ e.start_char < p.end_char)

findEntities(sections, all) ==
    [s \in 1..Len(sections) |->
        IF sections[s].name \in {intro, back_matter} THEN sections[s]
        ELSE [sections[s] EXCEPT !.paragraphs =
                 [i \in 1..Len(@) |->
                     [sents |-> @[i].sents, start_char |-> @[i].start_char,
                      end_char |-> @[i].end_char, ents |-> entsWithin(@[i], all)]]]]

\* p['merged_ents'] of a paragraph: merged from p['ents'] when it has that key
mergedOf(p) ==
    IF "ents" \in DOMAIN p
    THEN mergeEntities(IF "merged_ents" \in DOMAIN p THEN p.merged_ents ELSE <<>>, p.ents)
    ELSE mergedReset(<<>>)

withMerged(p, m) ==
    IF "ents" \in DOMAIN p
    THEN [sents |-> p.sents, start_char |-> p.start_char, end_char |-> p.end_char,
          ents |-> p.ents, merged_ents |-> m]
    ELSE [sents |-> p.sents, start_char |-> p.start_char, end_char |-> p.end_char,
          merged_ents |-> m]

mergeAll(sections) ==
    [s \in 1..Len(sections) |->
        [sections[s] EXCEPT !.paragraphs =
            [i \in 1..Len(@) |-> withMerged(@[i], mergedOf(@[i]))]]]
-----------------------------------------------------------------------------
(* Front matter and introduction (lines 800-856).                          *)

\* the length of the front matter's lead-in before the ellipsis
FrontLeadInLength == 30

Max(S) == CHOOSE x \in S : \A y \in S : y <= x

\* the 1-based indices of the paragraphs whose joined sentences hold marker
holding(paragraphs, marker) ==
    {i \in 1..Len(paragraphs) : contains(joinSents(paragraphs[i].sents), marker)}

\* the texts of all sentences of the paragraphs, in order
sentTexts(paragraphs) ==
    flatten([i \in 1..Len(paragraphs) |->
                [j \in 1..Len(paragraphs[i].sents) |-> paragraphs[i].sents[j].text]])

\* t['paragraphs'][0:fm_p], all of them when no paragraph holds 'TABLE'
frontMatterParagraphs(paragraphs) ==
    IF holding(paragraphs, TABLE) = {} THEN paragraphs
    ELSE SubSeq(paragraphs, 1, Max(holding(paragraphs, TABLE)) - 1)

\* lines 812-815, from paragraph i and sentence j on: for each sentence that
\* holds the page title, the sentence of paragraph i at index i is cut to
\* start at the title
RECURSIVE cutWebHeader(_, _, _)
cutWebHeader(front, i, j) ==
    IF i > Len(front) THEN [paragraphs |-> front, raised |-> "none"]
    ELSE IF j > Len(front[i].sents) THEN cutWebHeader(front, i + 1, 1)
    ELSE IF ~contains(front[i].sents[j].text, PageTitle) THEN cutWebHeader(front, i, j + 1)
    ELSE IF i > Len(front[i].sents) \/ Len(split(front[i].sents[i].text, PageTitle)) < 2
    THEN [paragraphs |-> front, raised |-> "IndexError"]
    ELSE cutWebHeader(
             [front EXCEPT ![i].sents[i].text = PageTitle \o split(@, PageTitle)[2]],
             i, j + 1)

\* f.split(marker)[part] for the texts that hold marker, the others as they are
cutAt(texts, marker, part) ==
    [i \in 1..Len(texts) |->
        IF contains(texts[i], marker) THEN split(texts[i], marker)[part] ELSE texts[i]]

\* the stop of the front matter
frontMatterStop(front) ==
    LET fm == lineBreaks(flatten(cutAt(sentTexts(front), TABLE, 1)))
    IN  [title |-> <<"F","r","o","n","t"," ","M","a","t","t","e","r">>,
         lead_in |-> prefix(fm, FrontLeadInLength) \o Ellipsis,
         excerpt |-> fm,
         tour |-> <<"I","n","t","r","o","d","u","c","t","i","o","n">>]

\* t['paragraphs'][intro_p:], all of them when none holds 'INTRODUCTION'
introParagraphs(paragraphs) ==
    IF holding(paragraphs, INTRODUCTION) = {} THEN paragraphs
    ELSE SubSeq(paragraphs, Max(holding(paragraphs, INTRODUCTION)), Len(paragraphs))

\* the stop of the introduction
introStop(paragraphs) ==
    LET p_text == lineBreaks(flatten(cutAt(sentTexts(paragraphs), INTRODUCTION, 2)))
    IN  [title |-> INTRODUCTION,
         lead_in |-> prefix(p_text, LeadInLength) \o Ellipsis,
         excerpt |-> p_text,
         tour |-> <<"I","n","t","r","o","d","u","c","t","i","o","n">>]

\* the intro section after line 815 wrote into its sentences
withFront(paragraphs, front) ==
    [i \in 1..Len(paragraphs) |-> IF i <= Len(front) THEN front[i] ELSE paragraphs[i]]

-----------------------------------------------------------------------------
(* Process tours (lines 861-903).                                          *)

TourPrefix == <<"T","O","U","R"," ">>

\* the start offsets of the entries of a group that carry one
startChars(v) ==
    {v[i].start_char : i \in {i \in 1..Len(v) : "start_char" \in DOMAIN v[i]}}

Min(S) == CHOOSE x \in S : \A y \in S : x <= y

\* m_ent for the non-empty groups, in the order of the dict (lines 892-898)
RECURSIVE groupsOf(_)
groupsOf(merged) ==
    IF merged = <<>> THEN <<>>
    ELSE (IF Len(merged[1].ents) > 0
          THEN <<[id |-> merged[1].id,
                  earliest_start_char |-> Min(startChars(merged[1].ents)),
                  ents |-> merged[1].ents]>>
          ELSE <<>>)
         \o groupsOf(Tail(merged))

\* min() of an empty list raises ValueError
groupsRaise(merged) ==
    \E i \in 1..Len(merged) : Len(merged[i].ents) > 0 /\ startChars(merged[i].ents) = {}

\* the groups left in the order of the dict
insertGroupLast(sorted, g) == Append(sorted, g)

\* sorted(merged_ents, key=earliest_start_char): a stable insertion sort
RECURSIVE insertGroup(_, _)
insertGroup(sorted, g) ==
    IF sorted = <<>> THEN <<g>>
    ELSE IF sorted[Len(sorted)].earliest_start_char <= g.earliest_start_char
    THEN Append(sorted, g)
    ELSE Append(insertGroup(SubSeq(sorted, 1, Len(sorted) - 1), g), sorted[Len(sorted)])

RECURSIVE sortGroups(_, _)
sortGroups(groups, sorted) ==
    IF groups = <<>> THEN sorted
    ELSE sortGroups(Tail(groups), insertGroup(sorted, groups[1]))

orderedEnts(merged) == sortGroups(groupsOf(merged), <<>>)

stopsForFirst(p, ordered, tour) ==
    IF ordered = <<>> THEN {<<>>}
    ELSE {<<createStop(p, ordered[1].ents, t, TourPrefix \o tour)>> :
             t \in createTitle(ordered[1].ents)}

\* the stop lists lines 900-903 can append for the ordered groups: one stop
\* per group, with any of the titles createTitle can return
RECURSIVE stopsFor(_, _, _)
stopsFor(p, ordered, tour) ==
    IF ordered = <<>> THEN {<<>>}
    ELSE {<<createStop(p, ordered[1].ents, t, TourPrefix \o tour)>> \o rest :
             t \in createTitle(ordered[1].ents),
             rest \in stopsFor(p, Tail(ordered), tour)}

\* the groups before the first one createTitle raises for
RECURSIVE titled(_)
titled(ordered) ==
    IF ordered = <<>> \/ createTitle(ordered[1].ents) = {} THEN <<>>
    ELSE <<ordered[1]>> \o titled(Tail(ordered))

\* the header stop of a tour (lines 874-885); key is the loop variable k
headerStop(p, key, tour) ==
    LET p_text == TOUR \o split(joinSents(p.sents), TOUR)[2]
    IN  [title |-> TourPrefix \o key,
         lead_in |-> lineBreaks(prefix(p_text, LeadInLength) \o Ellipsis),
         excerpt |-> lineBreaks(p_text),
         tour |-> TourPrefix \o tour]

\* to_prev of line 880: what stands before 'TOUR' in the text that was just
\* made to start with 'TOUR'
headerToPrev(p) ==
    [sents |-> <<[text |-> split(TOUR \o split(joinSents(p.sents), TOUR)[2], TOUR)[1]]>>]

\* the section and paragraph after pos, <<0, 0>> after the last tour
nextPos(sections, at) ==
    IF at[2] < Len(sections[at[1]].paragraphs) THEN <<at[1], at[2] + 1>>
    ELSE IF at[1] + 1 <= Len(sections) /\ sections[at[1] + 1].name \notin {intro, back_matter}
    THEN <<at[1] + 1, 1>>
    ELSE <<0, 0>>

\* k after the for loop of line 892 ran over the dict
lastKey(merged, key) == IF merged = <<>> THEN key ELSE merged[Len(merged)].id
-----------------------------------------------------------------------------
(* Back matter (lines 908-964).                                            *)

\* ''.join of the sentences (line 925) or joinSents (line 946)
backText(p, raw) ==
    IF raw THEN flatten([i \in 1..Len(p.sents) |-> p.sents[i].text])
    ELSE joinSents(p.sents)

\* the loops of lines 924-934 and 945-955: what stands before the marker
\* goes to the last stop(s), the rest is collected; acc is
\* [stops, texts, raised]
RECURSIVE collectBack(_, _, _, _)
collectBack(acc, paragraphs, marker, raw) ==
    IF paragraphs = <<>> \/ acc.raised # "none" THEN acc
    ELSE LET t == backText(paragraphs[1], raw)
         IN  IF contains(t, marker)
             THEN LET r == appendNoEntPara(acc.stops,
                               [sents |-> <<[text |-> split(t, marker)[1]]>>])
                  IN  collectBack(
                          [stops |-> r.stops,
                           texts |-> Append(acc.texts,
                               joinSents(<<[text |-> marker \o split(t, marker)[2]]>>)),
                           raised |-> r.raised],
                          Tail(paragraphs), marker, raw)
             ELSE collectBack(
                      [acc EXCEPT !.texts = Append(@, joinSents(paragraphs[1].sents))],
                      Tail(paragraphs), marker, raw)

footnoteStop(footnote) ==
    LET fn == lineBreaks(flatten(footnote))
    IN  [title |-> <<"F","O","O","T","N","O","T","E"," ","T","O"," ","T","R","E","E"," ","T","R","A","I","L","S">>,
         lead_in |-> prefix(fn, LeadInLength) \o Ellipsis,
         excerpt |-> fn,
         tour |-> <<"B","a","c","k"," ","m","a","t","t","e","r">>]

wordAboutStop(wordabout) ==
    LET wa == lineBreaks(join(<<SP>>, wordabout))
    IN  [title |-> <<"A"," ","W","O","R","D"," ","A","B","O","U","T"," ","T","H","E"," ","A","U","T","H","O","R">>,
         lead_in |-> prefix(wa, LeadInLength) \o Ellipsis,
         excerpt |-> lineBreaks(replace(wa, TopOfPage, <<>>)),
         tour |-> <<"B","a","c","k"," ","m","a","t","t","e","r">>]

\* the whole block: [stops, raised]; wa_p is unbound when no paragraph holds
\* 'WORD ABOUT'
backMatter(list, paragraphs) ==
    IF holding(paragraphs, WORD_ABOUT) = {} THEN [stops |-> list, raised |-> "NameError"]
    ELSE LET wa_p == Max(holding(paragraphs, WORD_ABOUT))
             fn == collectBack([stops |-> list, texts |-> <<>>, raised |-> "none"],
                               SubSeq(paragraphs, 1, wa_p - 1), FOOTNOTE, TRUE)
             wa == collectBack([stops |-> Append(fn.stops, footnoteStop(fn.texts)),
                                texts |-> <<>>, raised |-> fn.raised],
                               SubSeq(paragraphs, wa_p, Len(paragraphs)), A_WORD_ABOUT,
                               FALSE)
         IN  IF wa.raised # "none" THEN [stops |-> wa.stops, raised |-> wa.raised]
             ELSE [stops |-> Append(wa.stops, wordAboutStop(wa.texts)), raised |-> "none"]

-----------------------------------------------------------------------------
(* The curation filter (lines 976-1001) and the species export (lines      *)
(* 1013-1026).                                                             *)

\* most entries of the deletion list
MaxDeletes == 1

\* the entries pp-tree-trails_deletes.json can hold: the lead-in of a
\* paragraph with a species of it, with another species, the lead-in of a
\* tour header
DeletePool ==
    { [lead_in |-> <<"L","o","o","k",".",".",".",".">>, species |-> QuercusAlba],
      [lead_in |-> <<"S","e","e"," ","t","h","e"," ","A","c","e","r"," ","r","u","b","r","u","m"," ","a","n","d"," ","t","h","e"," ","Q","u","e","r","c","u","s",".",".",".">>, species |-> AcerRubrum],
      [lead_in |-> <<"L","o","o","k",".",".",".",".">>, species |-> AcerRubrum],
      [lead_in |-> <<"T","O","U","R"," ","1",".",".",".",".">>, species |-> QuercusAlba] }

\* the test of line 983 on one stop: s['species'] raises KeyError for a stop
\* without that key as soon as an entry has its lead-in
matchOf(s, dels) ==
    IF "species" \in DOMAIN s
    THEN IF \E d \in dels : s.lead_in = d.lead_in /\ s.species = d.species
         THEN "delete" ELSE "keep"
    ELSE IF \E d \in dels : s.lead_in = d.lead_in THEN "KeyError" ELSE "keep"

\* the loop of lines 982-995 from stop i on; acc is [final, kept, raised]
RECURSIVE filterFrom(_, _, _, _)
filterFrom(list, dels, acc, i) ==
    IF i > Len(list) \/ acc.raised # "none" THEN acc
    ELSE LET s == list[i]
             m == matchOf(s, dels)
         IN  IF m = "KeyError" THEN [acc EXCEPT !.raised = "KeyError"]
             ELSE IF m = "keep"
             THEN filterFrom(list, dels,
                      [acc EXCEPT !.final = Append(@, s), !.kept = Append(@, i)], i + 1)
             ELSE IF acc.final = <<>> THEN [acc EXCEPT !.raised = "IndexError"]
             ELSE IF acc.final[Len(acc.final)].lead_in = s.lead_in
             THEN filterFrom(list, dels, acc, i + 1)
             ELSE IF i = Len(list) THEN [acc EXCEPT !.raised = "IndexError"]
             ELSE IF list[i + 1].lead_in = s.lead_in
             THEN filterFrom(list, dels, acc, i + 1)
             ELSE LET r == appendToLast(acc.final, <<NL>> \o stripMarkup(s.excerpt), FALSE)
                  IN  filterFrom(list, dels,
                          [acc EXCEPT !.final = r.stops, !.raised = r.raised], i + 1)

\* stops after the loop: a final stop is the same dict as the stop it was
\* appended from
aliased(list, final, indices) ==
    [i \in 1..Len(list) |->
        IF \E j \in 1..Len(indices) : indices[j] = i
        THEN final[CHOOSE j \in 1..Len(indices) : indices[j] = i]
        ELSE list[i]]

\* f['sequence'] = seq
withSequence(f, seq) ==
    IF "species" \in DOMAIN f
    THEN [title |-> f.title, lead_in |-> f.lead_in, excerpt |-> f.excerpt,
          species |-> f.species, tour |-> f.tour, sequence |-> seq]
    ELSE [title |-> f.title, lead_in |-> f.lead_in, excerpt |-> f.excerpt,
          tour |-> f.tour, sequence |-> seq]

sameSeq(seq) == seq

\* seq += 1
nextSeq(seq) == seq + 1

\* the loop of lines 999-1001
RECURSIVE numbered(_, _)
numbered(list, seq) ==
    IF list = <<>> THEN <<>>
    ELSE <<withSequence(list[1], seq)>> \o numbered(Tail(list), nextSeq(seq))

\* the keys of p['merged_ents'] of all paragraphs of all sections
guideIds(sections) ==
    UNION {UNION {keySet(sections[s].paragraphs[i].merged_ents) :
                     i \in 1..Len(sections[s].paragraphs)} :
              s \in 1..Len(sections)}

exportedAll(species, sections) == species

\* final_tree_species
exported(species, sections) ==
    SelectSeq(species, LAMBDA ts : ts.id \in guideIds(sections))
-----------------------------------------------------------------------------
(* The script from the paragraph split to the species export.              *)

Init ==
    /\ pc = "entities"
    /\ \E document \in Documents :
          /\ tours = Sections(document)
          /\ ents = Entities(document)
    /\ pos = <<0, 0>>
    /\ k = <<>>
    /\ stops = <<>>
    /\ prev_stops = <<>>
    /\ last_p = <<>>
    /\ deletes = {}
    /\ final_stops = <<>>
    /\ kept = <<>>
    /\ raised = "none"
    /\ final_tree_species = <<>>
    /\ DictionaryAtRest
    /\ p_ents = <<>>
    /\ merged_ents = <<>>
    /\ merged_first = <<>>
    /\ runs = 0
    /\ dictionary = <<>>
    /\ addtl_names = <<>>
    /\ remove_name = <<>>
    /\ termlist = <<>>
    /\ doc_sents = <<>>
    /\ doc_sections = <<>>

\* lines 578-585
FindEntities ==
    /\ pc = "entities"
    /\ tours' = findEntities(tours, ents)
    /\ pc' = "merge_all"
    /\ UNCHANGED <<call, ret, ents, p_ents, merged_ents, merged_first, runs, pos, k,
                   stops, prev_stops, last_p, deletes, final_stops, kept, raised,
                   final_tree_species>>
    /\ UNCHANGED <<dictionary, addtl_names, remove_name, termlist, doc_sents, doc_sections>>

\* lines 601-647
MergeAll ==
    /\ pc = "merge_all"
    /\ tours' = mergeAll(tours)
    /\ pc' = "front_matter"
    /\ UNCHANGED <<call, ret, ents, p_ents, merged_ents, merged_first, runs, pos, k,
                   stops, prev_stops, last_p, deletes, final_stops, kept, raised,
                   final_tree_species>>
    /\ UNCHANGED <<dictionary, addtl_names, remove_name, termlist, doc_sents, doc_sections>>

\* lines 795-856
ProcessFrontMatter ==
    /\ pc = "front_matter"
    /\ LET paragraphs == tours[1].paragraphs
           cut == cutWebHeader(frontMatterParagraphs(paragraphs), 1, 1)
           after == withFront(paragraphs, cut.paragraphs)
       IN  /\ tours' = [tours EXCEPT ![1].paragraphs = after]
           /\ raised' = cut.raised
           /\ stops' = IF cut.raised # "none" THEN stops
                       ELSE stops \o <<frontMatterStop(cut.paragraphs),
                                       introStop(introParagraphs(after))>>
           /\ pc' = IF cut.raised # "none" THEN "raised" ELSE "tours"
    /\ pos' = <<2, 1>>
    /\ k' = tours[2].name
    /\ UNCHANGED <<call, ret, ents, p_ents, merged_ents, merged_first, runs, prev_stops,
                   last_p, deletes, final_stops, kept, final_tree_species>>
    /\ UNCHANGED <<dictionary, addtl_names, remove_name, termlist, doc_sents, doc_sections>>

\* what one iteration of the loop of line 865 can leave: [stops, raised, k]
iterations(list, p, key, tour) ==
    LET merged == IF "merged_ents" \in DOMAIN p THEN p.merged_ents ELSE <<>>
    IN  IF Len(merged) = 0
        THEN IF ~contains(joinSents(p.sents), TOUR)
             THEN LET r == IF Len(list) > 0 THEN appendNoEntPara(list, p)
                           ELSE [stops |-> list, raised |-> "none"]
                  IN  {[stops |-> r.stops, raised |-> r.raised, k |-> key]}
             ELSE LET r == appendNoEntPara(list, headerToPrev(p))
                  IN  {[stops |-> IF r.raised # "none" THEN r.stops
                                  ELSE Append(r.stops, headerStop(p, key, tour)),
                        raised |-> r.raised, k |-> key]}
        ELSE IF groupsRaise(merged)
        THEN {[stops |-> list, raised |-> "ValueError", k |-> key]}
        ELSE LET ordered == orderedEnts(merged)
             IN  {[stops |-> list \o new,
                   raised |-> IF Len(titled(ordered)) < Len(ordered)
                              THEN "UnboundLocalError" ELSE "none",
                   k |-> lastKey(merged, key)] :
                     new \in stopsFor(p, titled(ordered), tour)}

\* one iteration of the loop of line 865, with the loop of line 861 around it
ProcessParagraph ==
    /\ pc = "tours"
    /\ \E r \in iterations(stops, tours[pos[1]].paragraphs[pos[2]], k, tours[pos[1]].name) :
          /\ stops' = r.stops
          /\ raised' = r.raised
          /\ pc' = IF r.raised # "none" THEN "raised"
                   ELSE IF nextPos(tours, pos) = <<0, 0>> THEN "back_matter"
                   ELSE "tours"
          /\ k' = IF nextPos(tours, pos)[1] \notin {0, pos[1]}
                  THEN tours[nextPos(tours, pos)[1]].name ELSE r.k
    /\ prev_stops' = stops
    /\ last_p' = <<tours[pos[1]].paragraphs[pos[2]]>>
    /\ pos' = nextPos(tours, pos)
    /\ UNCHANGED <<call, ret, ents, p_ents, merged_ents, merged_first, runs, tours,
                   deletes, final_stops, kept, final_tree_species>>
    /\ UNCHANGED <<dictionary, addtl_names, remove_name, termlist, doc_sents, doc_sections>>

\* lines 908-964
ProcessBackMatter ==
    /\ pc = "back_matter"
    /\ LET r == backMatter(stops, tours[Len(tours)].paragraphs)
       IN  /\ stops' = r.stops
           /\ raised' = r.raised
           /\ pc' = IF r.raised # "none" THEN "raised" ELSE "deletes"
    /\ k' = tours[Len(tours)].name
    /\ UNCHANGED <<call, ret, ents, p_ents, merged_ents, merged_first, runs, tours, pos,
                   prev_stops, last_p, deletes, final_stops, kept, final_tree_species>>
    /\ UNCHANGED <<dictionary, addtl_names, remove_name, termlist, doc_sents, doc_sections>>

\* lines 977-978
LoadDeletes ==
    /\ pc = "deletes"
    /\ deletes' \in {d \in SUBSET DeletePool : Cardinality(d) <= MaxDeletes}
    /\ pc' = "filter"
    /\ UNCHANGED <<call, ret, ents, p_ents, merged_ents, merged_first, runs, tours, pos,
                   k, stops, prev_stops, last_p, final_stops, kept, raised,
                   final_tree_species>>
    /\ UNCHANGED <<dictionary, addtl_names, remove_name, termlist, doc_sents, doc_sections>>

\* lines 981-995
Filter ==
    /\ pc = "filter"
    /\ LET r == filterFrom(stops, deletes,
                        [final |-> <<>>, kept |-> <<>>, raised |-> "none"], 1)
       IN  /\ final_stops' = r.final
           /\ kept' = r.kept
           /\ raised' = r.raised
           /\ stops' = aliased(stops, r.final, r.kept)
           /\ pc' = IF r.raised # "none" THEN "raised" ELSE "sequence"
    /\ UNCHANGED <<call, ret, ents, p_ents, merged_ents, merged_first, runs, tours, pos,
                   k, prev_stops, last_p, deletes, final_tree_species>>
    /\ UNCHANGED <<dictionary, addtl_names, remove_name, termlist, doc_sents, doc_sections>>

\* lines 998-1001
AssignSequence ==
    /\ pc = "sequence"
    /\ final_stops' = numbered(final_stops, 1)
    /\ stops' = aliased(stops, final_stops', kept)
    /\ pc' = "species"
    /\ UNCHANGED <<call, ret, ents, p_ents, merged_ents, merged_first, runs, tours, pos,
                   k, prev_stops, last_p, deletes, kept, raised, final_tree_species>>
    /\ UNCHANGED <<dictionary, addtl_names, remove_name, termlist, doc_sents, doc_sections>>

\* lines 1013-1023
ExportSpecies ==
    /\ pc = "species"
    /\ final_tree_species' = exported(tree_species, tours)
    /\ pc' = "done"
    /\ UNCHANGED <<call, ret, ents, p_ents, merged_ents, merged_first, runs, tours, pos,
                   k, stops, prev_stops, last_p, deletes, final_stops, kept, raised>>
    /\ UNCHANGED <<dictionary, addtl_names, remove_name, termlist, doc_sents, doc_sections>>

Next ==
    \/ FindEntities
    \/ MergeAll
    \/ ProcessFrontMatter
    \/ ProcessParagraph
    \/ ProcessBackMatter
    \/ LoadDeletes
    \/ Filter
    \/ AssignSequence
    \/ ExportSpecies

Spec == Init /\ [][Next]_vars
-----------------------------------------------------------------------------
(* Claims about the stop synthesizer, the curation filter and the export,  *)
(* checked under Spec.                                                     *)

\* the last loop iteration of process tours has just ended
afterIteration == pc \in {"tours", "back_matter"} /\ Len(last_p) = 1

\* the number of non-empty groups of a paragraph
groupCount(p) ==
    Cardinality({i \in 1..Len(p.merged_ents) : Len(p.merged_ents[i].ents) > 0})

\* the stops the last iteration appended
newStops == SubSeq(stops, Len(prev_stops) + 1, Len(stops))

\* C1: a tour paragraph with zero merged entity groups whose joined text does
\* not contain "TOUR" adds no stop to the stop list, and the excerpt of the
\* last stop of the list becomes strictly longer.
C1_NoEntityCarryForward ==
    (/\ afterIteration
     /\ Len(last_p[1].merged_ents) = 0
     /\ ~contains(joinSents(last_p[1].sents), TOUR))
    => /\ Len(stops) = Len(prev_stops)
       /\ Len(stops) > 0
       /\ Len(stops[Len(stops)].excerpt) > Len(prev_stops[Len(stops)].excerpt)

\* C1 witness: such a paragraph was processed after a paragraph that had
\* been split into two stops, and both excerpts grew
C1_Witness ==
    /\ afterIteration
    /\ Len(last_p[1].merged_ents) = 0
    /\ ~contains(joinSents(last_p[1].sents), TOUR)
    /\ Len(stops) > 3
    /\ stops[Len(stops) - 1].lead_in = stops[Len(stops)].lead_in
    /\ stops[Len(stops) - 1].excerpt # prev_stops[Len(stops) - 1].excerpt
    /\ stops[Len(stops)].excerpt # prev_stops[Len(stops)].excerpt

filterEnded ==
    \/ pc \in {"sequence", "species", "done"}
    \/ pc = "raised" /\ deletes # {}

\* the stops of the synthesized list that are in the final list
keptSet == {kept[j] : j \in 1..Len(kept)}

\* C3: once the curation filter has run, every stop of the synthesized list,
\* header and front/back-matter stops included, is absent from the final list
\* if and only if some entry of the deletion list equals it on both lead-in
\* and species, and the stops kept are in their original order.
C3_DeletedIffMatched ==
    filterEnded
    => /\ \A i \in 1..Len(stops) :
             (i \notin keptSet)
             <=> (\E d \in deletes :
                     /\ d.lead_in = stops[i].lead_in
                     /\ "species" \in DOMAIN stops[i]
                     /\ d.species = stops[i].species)
       /\ \A a, b \in 1..Len(kept) : a < b => kept[a] < kept[b]

\* the final stop that was stop i of the synthesized list
finalOf(i) == final_stops[CHOOSE j \in 1..Len(kept) : kept[j] = i]

\* C4: when every stop sharing a lead-in is deleted, no final stop has that
\* lead-in, and the markup-stripped excerpt of each deleted stop is a
\* substring of the excerpt of the nearest surviving preceding stop and of
\* every surviving stop with that stop's lead-in.
C4_DeletedTextCarried ==
    pc \in {"sequence", "species", "done"}
    => \A i \in 1..Len(stops) :
          (\A j \in 1..Len(stops) :
              stops[j].lead_in = stops[i].lead_in => j \notin keptSet)
          => /\ \A f \in 1..Len(final_stops) : final_stops[f].lead_in # stops[i].lead_in
             /\ \E n \in keptSet :
                   /\ n < i
                   /\ \A m \in keptSet : m < i => m <= n
                   /\ \A f \in 1..Len(final_stops) :
                         final_stops[f].lead_in = finalOf(n).lead_in
                         => contains(final_stops[f].excerpt, stripMarkup(stops[i].excerpt))

\* C5: after the curation filter the final stops carry the sequence numbers
\* 1..N in final list order, N the number of surviving stops.
C5_SequenceNumbers ==
    pc \in {"species", "done"}
    => \A i \in 1..Len(final_stops) : final_stops[i].sequence = i

\* C5 witness: numbered final stops after a deletion removed a stop from the
\* middle of the list
C5_Witness ==
    /\ pc = "done"
    /\ Len(final_stops) > 1
    /\ Len(final_stops) < Len(stops)
    /\ final_stops[Len(final_stops)].sequence = Len(final_stops)

\* the species some final stop links
linked == {final_stops[i].species :
              i \in {i \in 1..Len(final_stops) : "species" \in DOMAIN final_stops[i]}}

exportedNames == {final_tree_species[i].name : i \in 1..Len(final_tree_species)}

\* C6 as stated: the species export has a row for a species if and only if
\* some stop of the final list links that species.
C6_ExportedIffLinked ==
    pc = "done"
    => \A t \in 1..Len(tree_species) :
          (tree_species[t].name \in exportedNames) <=> (tree_species[t].name \in linked)

\* C6 amended: the species export has a row for a species if and only if its
\* id keys a merged entity group of some paragraph of the document, whether or
\* not the stops of that paragraph survived the curation filter; every
\* species a final stop links is exported (a stop whose group has an id the
\* dictionary does not have links none: its species is None).
C6_ExportedIffInGuide ==
    pc = "done"
    => /\ \A t \in 1..Len(tree_species) :
             (\E x \in 1..Len(final_tree_species) : final_tree_species[x] = tree_species[t])
             <=> (\E s \in 1..Len(tours) :
                     \E i \in 1..Len(tours[s].paragraphs) :
                        \E j \in 1..Len(tours[s].paragraphs[i].merged_ents) :
                           tours[s].paragraphs[i].merged_ents[j].id = tree_species[t].id)
       /\ linked \ {None} \subseteq exportedNames

\* C6 witness: a species is exported although the deletion list removed its
\* only stop
C6_Witness ==
    /\ pc = "done"
    /\ Len(final_stops) < Len(stops)
    /\ exportedNames # {}
    /\ linked = {}
-----------------------------------------------------------------------------
(* The segmenter: sections (lines 525-549) and paragraphs (lines 554-572). *)

\* sents (lines 511-517) of a document as written
Sentences(document) ==
    LET placed == placeParagraphs(flatten(document), 0)
    IN  flatten([i \in 1..Len(placed) |-> placed[i].sents])

\* the loop of lines 527-534 and line 534: a sentence that holds 'TOUR' or
\* 'FOOTNOTE' closes the section before it and opens the next
RECURSIVE splitSections(_, _, _)
splitSections(rest, done, section) ==
    IF rest = <<>> THEN Append(done, section)
    ELSE IF ~contains(rest[1].text, TOUR) /\ ~contains(rest[1].text, FOOTNOTE)
    THEN splitSections(Tail(rest), done, Append(section, rest[1]))
    ELSE splitSections(Tail(rest), Append(done, section), <<rest[1]>>)

\* lines 537-549: sections[0] .. sections[5] by name; [tours, raised].  A
\* missing section raises IndexError after the dict of its tour was made.
assignTours(all) ==
    LET names == <<intro>> \o TourNames \o <<back_matter>>
    IN  IF Len(all) >= Len(names)
        THEN [tours |-> [s \in 1..Len(names) |-> [name |-> names[s], sents |-> all[s]]],
              raised |-> "none"]
        ELSE [tours |-> [s \in 1..(Len(all) + 1) |->
                            IF s <= Len(all) THEN [name |-> names[s], sents |-> all[s]]
                            ELSE [name |-> names[s]]],
              raised |-> "IndexError"]

\* the loop of lines 559-568 over the sentences of one section: the lists of
\* sentences of its paragraphs; p is p['sents']
RECURSIVE splitParagraphs(_, _, _)
splitParagraphs(rest, paragraphs, p) ==
    IF rest = <<>> THEN Append(paragraphs, p)
    ELSE IF ~startswith(rest[1].text, <<NL, NL>>)
    THEN splitParagraphs(Tail(rest), paragraphs, Append(p, rest[1]))
    ELSE splitParagraphs(Tail(rest),
             IF Len(p) > 0 THEN Append(paragraphs, p) ELSE paragraphs, <<rest[1]>>)

\* lines 570-572 for the paragraphs of one section: p['sents'][0] raises
\* IndexError for a paragraph without a sentence, the paragraphs before it
\* have their offsets
withOffsets(lists) ==
    LET bad == {i \in 1..Len(lists) : lists[i] = <<>>}
    IN  [paragraphs |->
            [i \in 1..Len(lists) |->
                IF \E b \in bad : b <= i THEN [sents |-> lists[i]]
                ELSE Paragraph(lists[i])],
         raised |-> IF bad = {} THEN "none" ELSE "IndexError"]

\* lines 555-572 from section s on; [tours, raised]
RECURSIVE paragraphsFrom(_, _)
paragraphsFrom(all, s) ==
    IF s > Len(all) THEN [tours |-> all, raised |-> "none"]
    ELSE LET r == withOffsets(splitParagraphs(all[s].sents, <<>>, <<>>))
             after == [all EXCEPT ![s] = [name |-> all[s].name, sents |-> all[s].sents,
                                          paragraphs |-> r.paragraphs]]
         IN  IF r.raised # "none" THEN [tours |-> after, raised |-> r.raised]
             ELSE paragraphsFrom(after, s + 1)

\* the document of the end-to-end example, as the sentence splitter can
\* split it
EndToEndTexts ==
    { << <<"T","O","U","R"," ","1",NL,NL,"T","h","e"," ","w","h","i","t","e"," ","o","a","k"," ","s","t","a","n","d","s"," ","t","a","l","l",".">>, <<"Q","u","e","r","c","u","s"," ","a","l","b","a"," ","i","s"," ","c","o","m","m","o","n",".">> >>,
      << <<"T","O","U","R"," ","1">>, <<NL,NL,"T","h","e"," ","w","h","i","t","e"," ","o","a","k"," ","s","t","a","n","d","s"," ","t","a","l","l",".">>, <<"Q","u","e","r","c","u","s"," ","a","l","b","a"," ","i","s"," ","c","o","m","m","o","n",".">> >>,
      << <<"T","O","U","R"," ","1",NL,NL,"T","h","e"," ","w","h","i","t","e"," ","o","a","k"," ","s","t","a","n","d","s"," ","t","a","l","l","."," ","Q","u","e","r","c","u","s"," ","a","l","b","a"," ","i","s"," ","c","o","m","m","o","n",".">> >> }

\* documents that do not have the six sections of the book: one that opens
\* with a marker, one with a marker inside a tour
OddTexts ==
    { << <<"T","O","U","R"," ","1",".">>, <<NL,NL,"T","O","U","R"," ","2",".">>, <<NL,NL,"T","O","U","R"," ","3",".">>, <<NL,NL,"T","O","U","R"," ","4",".">>,
         <<NL,NL,"F","O","O","T","N","O","T","E",".">> >>,
      << <<"H","o","m","e",".">>, <<NL,NL,"T","O","U","R"," ","1",".">>, <<"S","e","e"," ","T","O","U","R"," ","2",".">>, <<NL,NL,"T","O","U","R"," ","2",".">>, <<NL,NL,"T","O","U","R"," ","3",".">>,
         <<NL,NL,"T","O","U","R"," ","4",".">>, <<NL,NL,"F","O","O","T","N","O","T","E",".">>, <<"A"," ","W","O","R","D"," ","A","B","O","U","T",".">> >> }

InitSegment ==
    /\ pc = "sections"
    /\ doc_sents \in {Sentences(document) : document \in Documents}
                     \cup {placeSents(texts, 0) : texts \in EndToEndTexts \cup OddTexts}
    /\ doc_sections = <<>>
    /\ dictionary = <<>>
    /\ addtl_names = <<>>
    /\ remove_name = <<>>
    /\ termlist = <<>>
    /\ DictionaryAtRest
    /\ p_ents = <<>>
    /\ merged_ents = <<>>
    /\ merged_first = <<>>
    /\ runs = 0
    /\ ents = <<>>
    /\ tours = <<>>
    /\ pos = <<0, 0>>
    /\ k = <<>>
    /\ stops = <<>>
    /\ prev_stops = <<>>
    /\ last_p = <<>>
    /\ deletes = {}
    /\ final_stops = <<>>
    /\ kept = <<>>
    /\ raised = "none"
    /\ final_tree_species = <<>>

\* lines 525-534
SplitSections ==
    /\ pc = "sections"
    /\ doc_sections' = splitSections(doc_sents, <<>>, <<>>)
    /\ pc' = "assign"
    /\ UNCHANGED <<call, ret, ents, p_ents, merged_ents, merged_first, runs, tours, pos,
                   k, stops, prev_stops, last_p, deletes, final_stops, kept, raised,
                   final_tree_species, dictionary, addtl_names, remove_name, termlist,
                   doc_sents>>

\* lines 537-549
AssignTours ==
    /\ pc = "assign"
    /\ tours' = assignTours(doc_sections).tours
    /\ raised' = assignTours(doc_sections).raised
    /\ pc' = IF raised' # "none" THEN "raised" ELSE "paragraphs"
    /\ UNCHANGED <<call, ret, ents, p_ents, merged_ents, merged_first, runs, pos, k,
                   stops, prev_stops, last_p, deletes, final_stops, kept,
                   final_tree_species, dictionary, addtl_names, remove_name, termlist,
                   doc_sents, doc_sections>>

\* lines 555-572
SplitParagraphs ==
    /\ pc = "paragraphs"
    /\ tours' = paragraphsFrom(tours, 1).tours
    /\ raised' = paragraphsFrom(tours, 1).raised
    /\ pc' = IF raised' # "none" THEN "raised" ELSE "segmented"
    /\ UNCHANGED <<call, ret, ents, p_ents, merged_ents, merged_first, runs, pos, k,
                   stops, prev_stops, last_p, deletes, final_stops, kept,
                   final_tree_species, dictionary, addtl_names, remove_name, termlist,
                   doc_sents, doc_sections>>

NextSegment == SplitSections \/ AssignTours \/ SplitParagraphs

SpecSegment == InitSegment /\ [][NextSegment]_vars

-----------------------------------------------------------------------------
(* Claims about the segmenter, checked under SpecSegment.                  *)

\* C11: with the document "TOUR 1\n\nThe white oak stands tall. Quercus alba
\* is common." the script raises nothing and, once it is done, the stops of
\* the tour are one header stop titled "TOUR 1" and exactly one stop titled
\* "White oak (Quercus alba)" whose excerpt has "Quercus alba" in bold and
\* italic and "white oak" in italic.  The document has two sections and
\* line 543 reads a third, so this is violated.
C11_EndToEnd ==
    doc_sents \in {placeSents(texts, 0) : texts \in EndToEndTexts}
    => /\ raised = "none"
       /\ pc = "done" =>
             LET tour == SelectSeq(stops, LAMBDA s : startswith(s.tour, TourPrefix))
             IN  /\ Len(tour) = 2
                 /\ tour[1].title = <<"T","O","U","R"," ","1">>
                 /\ tour[2].title = <<"W","h","i","t","e"," ","o","a","k"," ","(","Q","u","e","r","c","u","s"," ","a","l","b","a",")">>
                 /\ contains(tour[2].excerpt, bold(italic(QuercusAlba)))
                 /\ contains(tour[2].excerpt, italic(<<"w","h","i","t","e"," ","o","a","k">>))

\* every section got its six-section name and the paragraph loop has ended
paragraphsEnded ==
    /\ Len(doc_sections) >= 6
    /\ pc \in {"segmented", "raised"}

\* the paragraphs of a section are non-empty lists of sentences which,
\* concatenated in order, are the sentences of the section, and each has the
\* offsets of its first and last sentence
partitioned(t) ==
    /\ "paragraphs" \in DOMAIN t
    /\ \A i \in 1..Len(t.paragraphs) :
          /\ Len(t.paragraphs[i].sents) > 0
          /\ "start_char" \in DOMAIN t.paragraphs[i]
          /\ t.paragraphs[i].start_char = t.paragraphs[i].sents[1].start_char
          /\ t.paragraphs[i].end_char
             = t.paragraphs[i].sents[Len(t.paragraphs[i].sents)].end_char
    /\ flatten([i \in 1..Len(t.paragraphs) |-> t.paragraphs[i].sents]) = t.sents

\* C15: for every section of the segmenter, a section with zero sentences
\* included (the first section of a document whose first sentence holds a
\* marker), the paragraphs are non-empty, contiguous and in sentence order,
\* their sentence lists concatenated are the section's sentence list, and the
\* offsets of each are [first sentence start, last sentence end].  For the
\* section without sentences line 568 appends a paragraph without sentences
\* and line 571 raises, so this is violated.
C15_ParagraphPartition ==
    paragraphsEnded
    => /\ raised = "none"
       /\ \A s \in 1..Len(tours) : partitioned(tours[s])
-----------------------------------------------------------------------------
(* The species dictionary: reshaping the Wikidata results (lines 161-203), *)
(* the manual additions (lines 247-290) and removals (lines 295-315), and  *)
(* the loop that writes the match rules (lines 414-440).                   *)

\* most records of a generated species list
MaxSpecies == 2
\* most entries of a generated addition list
MaxAdditions == 2
\* most entries of a generated removal list
MaxRemovals == 1

\* r with its field f set to v: ts[f] = v
withField(r, f, v) == (f :> v) @@ r

\* r without its field f: ts.pop(f)
withoutField(r, f) == [g \in DOMAIN r \ {f} |-> r[g]]

\* list(set(v)): the orders in which a set's iteration can yield the
\* distinct members of v
orders(v) ==
    LET members == {v[i] : i \in 1..Len(v)}
    IN  {q \in [1..Cardinality(members) -> members] :
            \A i, j \in 1..Cardinality(members) : i # j => q[i] # q[j]}

\* the values of key in the parsed Wikidata results, [] when it is missing
valuesOf(wd_data, key) == IF key \in DOMAIN wd_data THEN wd_data[key] ELSE <<>>

\* the body of the loop of reshapeWikidata for one record: the outcomes
\* [ts, raised].  ts.pop('wikipedia') raises KeyError for a record without a
\* link, parseWikidataBySpecies raises TypeError on the data None of a
\* request that failed.
reshapeOne(ts) ==
    LET expanded == IF "wiki_link" \in DOMAIN ts
                    THEN withField(ts, "wikipedia",
                             <<"h","t","t","p","s",":","/","/","e","n",".","w","i","k","i","p","e","d","i","a",".","o","r","g","/">> \o ts.wiki_link)
                    ELSE ts
        missing == contains(ts.name, <<"(","p","a","g","e"," ","d","o","e","s"," ","n","o","t"," ","e","x","i","s","t",")">>)
        named == IF missing
                 THEN withField(withoutField(expanded, "wikipedia"), "name",
                          replace(ts.name, <<" ","(","p","a","g","e"," ","d","o","e","s"," ","n","o","t"," ","e","x","i","s","t",")">>, <<>>))
                 ELSE expanded
    IN  IF missing /\ "wikipedia" \notin DOMAIN expanded
        THEN {[ts |-> expanded, raised |-> "KeyError"]}
        ELSE IF "raw_wd" \notin DOMAIN ts THEN {[ts |-> named, raised |-> "none"]}
        ELSE IF ts.raw_wd.status_code # 200 THEN {[ts |-> named, raised |-> "TypeError"]}
        ELSE LET wd_data == ts.raw_wd.bindings
                 urls == (IF "inaturalistLabel" \in DOMAIN wd_data
                          THEN {withField(named, "inaturalist",
                                    <<"h","t","t","p","s",":","/","/","i","n","a","t","u","r","a","l","i","s","t",".","o","r","g","/","t","a","x","a","/">> \o first) :
                                    first \in {q[1] : q \in orders(wd_data.inaturalistLabel)}}
                          ELSE {named})
                 commons == {withField(u, "wp_commons",
                                 <<"h","t","t","p","s",":","/","/","c","o","m","m","o","n","s",".","w","i","k","i","m","e","d","i","a",".","o","r","g","/","w","i","k","i","/">> \o first) :
                                 u \in urls,
                                 first \in {q[1] : q \in orders(valuesOf(wd_data, "wpcommonsLabel"))}}
                 labelled == {withField(u, "species", first) :
                                 u \in (IF "wpcommonsLabel" \in DOMAIN wd_data
                                        THEN commons ELSE urls),
                                 first \in {q[1] : q \in orders(valuesOf(wd_data, "label"))}}
                 names == valuesOf(wd_data, "altLabel") \o valuesOf(wd_data, "commonLabel")
             IN  {[ts |-> withField(u, "common_names", q), raised |-> "none"] :
                     u \in (IF "label" \in DOMAIN wd_data THEN labelled
                            ELSE IF "wpcommonsLabel" \in DOMAIN wd_data THEN commons
                            ELSE urls),
                     q \in orders([i \in 1..Len(names) |-> title(names[i])])}

\* reshapeWikidata(tree_species): the outcomes [tree_species, raised]
RECURSIVE reshapeWikidata(_)
reshapeWikidata(list) ==
    IF list = <<>> THEN {[tree_species |-> <<>>, raised |-> "none"]}
    ELSE UNION {
           IF r.raised # "none"
           THEN {[tree_species |-> <<r.ts>> \o Tail(list), raised |-> r.raised]}
           ELSE {[tree_species |-> <<r.ts>> \o rest.tree_species, raised |-> rest.raised] :
                    rest \in reshapeWikidata(Tail(list))} :
           r \in reshapeOne(list[1])}

\* lines 282-290 for one addition a and one record t: a common name is
\* appended, an alternate spelling replaces the list
addName(t, a) ==
    IF "wikidata" \notin DOMAIN t \/ a.wikidata # t.wikidata THEN t
    ELSE IF "common_name" \in DOMAIN a
    THEN withField(t, "common_names", valuesOf(t, "common_names") \o <<a.common_name>>)
    ELSE IF "alt_species" \in DOMAIN a
    THEN withField(t, "alt_species", <<a.alt_species>>)
    ELSE t

\* the loop of lines 280-290
RECURSIVE addNames(_, _)
addNames(list, additions) ==
    IF additions = <<>> THEN list
    ELSE addNames([i \in 1..Len(list) |-> addName(list[i], additions[1])],
                  Tail(additions))

\* lines 308-311 for one record and the removal entries in order:
\* [ts, raised]; ts['common_names'] raises KeyError for a record without
\* common names
RECURSIVE removeNames(_, _)
removeNames(ts, removals) ==
    IF removals = <<>> THEN [ts |-> ts, raised |-> "none"]
    ELSE LET r == removals[1]
         IN  IF "wikidata" \in DOMAIN ts /\ ts.wikidata = r.wikidata
                /\ "common_name" \in DOMAIN r
             THEN IF "common_names" \notin DOMAIN ts THEN [ts |-> ts, raised |-> "KeyError"]
                  ELSE removeNames(
                           withField(ts, "common_names",
                               SelectSeq(ts.common_names, LAMBDA c : c # r.common_name)),
                           Tail(removals))
             ELSE removeNames(ts, Tail(removals))

\* lines 312-314: the record is listed in entity_remove
entityRemoved(ts, removals) ==
    \E i \in 1..Len(removals) :
        /\ "wikidata" \in DOMAIN ts
        /\ ts.wikidata = removals[i].wikidata
        /\ "species" \in DOMAIN removals[i]
        /\ removals[i].species = ts.name

\* lines 305-315: [tree_species, raised]
applyRemovals(list, removals) ==
    LET each == [i \in 1..Len(list) |-> removeNames(list[i], removals)]
        bad == {i \in 1..Len(list) : each[i].raised # "none"}
        cleaned == [i \in 1..Len(list) |->
                       IF \E b \in bad : b < i THEN list[i] ELSE each[i].ts]
    IN  IF bad # {} THEN [tree_species |-> cleaned, raised |-> "KeyError"]
        ELSE [tree_species |-> SelectSeq(cleaned, LAMBDA ts : ~entityRemoved(ts, removals)),
              raised |-> "none"]

\* the terms of one record in the order lines 424-438 hand them to
\* constructTerm
termsOf(t) ==
    <<[term |-> t.name, label |-> TREE_SPECIES]>>
    \o [i \in 1..Len(valuesOf(t, "common_names")) |->
           [term |-> t.common_names[i], label |-> TREE_COMMON_NAME]]
    \o [i \in 1..Len(valuesOf(t, "alt_species")) |->
           [term |-> t.alt_species[i], label |-> ALT_TREE_SPECIES]]

\* alt_id left as it is
sameAltId(t, alt_id) == alt_id

\* lines 439-440: alt_id counts the records without a Wikidata id
nextAltId(t, alt_id) == IF "wikidata" \in DOMAIN t THEN alt_id ELSE alt_id + 1

\* str(alt_id)
digits == <<"1","2","3","4","5","6","7","8","9">>

\* the loop of lines 416-440 from record i on: [tree_species, termlist,
\* raised].  The first term on which constructTerm raises ends the script;
\* the rules of the terms before it are in termlist.
RECURSIVE buildTermlist(_, _, _, _)
buildTermlist(list, i, alt_id, acc) ==
    IF i > Len(list) THEN [tree_species |-> list, termlist |-> acc, raised |-> "none"]
    ELSE LET t == list[i]
             id == IF "wikidata" \in DOMAIN t THEN t.wikidata
                   ELSE <<"x", digits[alt_id]>>
             terms == termsOf(t)
             bad == {j \in 1..Len(terms) : constructTermRaises(terms[j].term, terms[j].label)}
             upto == IF bad = {} THEN Len(terms) ELSE Min(bad) - 1
             rules == extendAll([j \in 1..upto |->
                          constructTerm(terms[j].term, terms[j].label, id)])
             after == [list EXCEPT ![i] = withField(t, "id", id)]
         IN  IF bad # {}
             THEN [tree_species |-> after, termlist |-> acc \o rules,
                   raised |-> "UnboundLocalError"]
             ELSE buildTermlist(after, i + 1, nextAltId(t, alt_id), acc \o rules)

\* the Wikidata results of a request that succeeded
Found(bindings) == [status_code |-> 200, bindings |-> bindings]

\* records of the species list before reshaping: with a Wikipedia page and
\* Wikidata results, added by hand without a page, without a page and
\* without an id, with an empty title, with a request that failed, with a
\* page for which getWikidataId found no id
SpeciesPool ==
    << [name |-> QuercusAlba, wiki_link |-> <<"/","w","i","k","i","/","Q","u","e","r","c","u","s","_","a","l","b","a">>, wikidata |-> Q1,
        raw_wd |-> Found([label |-> <<QuercusAlba>>,
                          altLabel |-> <<<<"w","h","i","t","e"," ","o","a","k">>>>,
                          commonLabel |-> <<<<"W","h","i","t","e"," ","O","a","k">>, <<"s","t","a","v","e"," ","o","a","k">>>>,
                          inaturalistLabel |-> <<<<"5","4","7","7","9">>>>])],
       [name |-> AcerRubrum, wikidata |-> Q2,
        raw_wd |-> Found([label |-> <<AcerRubrum>>,
                          commonLabel |-> <<<<"r","e","d"," ","m","a","p","l","e">>>>,
                          wpcommonsLabel |-> <<AcerRubrum>>])],
       [name |-> <<"U","l","m","u","s"," ","p","r","o","c","e","r","a"," ","(","p","a","g","e"," ","d","o","e","s"," ","n","o","t"," ","e","x","i","s","t",")">>, wiki_link |-> <<"/","w","/","U","l","m","u","s">>],
       [name |-> <<>>, wiki_link |-> <<"/","w","i","k","i","/">>],
       [name |-> <<"T","i","l","i","a">>, wiki_link |-> <<"/","w","i","k","i","/","T","i","l","i","a">>, wikidata |-> Q3,
        raw_wd |-> [status_code |-> 500]],
       [name |-> <<"S","o","r","b","u","s">>, wiki_link |-> <<"/","w","i","k","i","/","S","o","r","b","u","s">>] >>

\* entries of the addition list: a common name in sentence case, two
\* alternate spellings for one id, an empty common name, an id no record has
AdditionPool ==
    { [wikidata |-> Q1, common_name |-> <<"W","h","i","t","e"," ","o","a","k">>],
      [wikidata |-> Q1, alt_species |-> <<"Q","u","e","r","c","u","s"," ","a","l","b","u","s">>],
      [wikidata |-> Q1, alt_species |-> <<"Q","u","e","r","c","u","s"," ","c","a","n","d","i","d","a">>],
      [wikidata |-> Q2, common_name |-> <<>>],
      [wikidata |-> <<"Q","9">>, common_name |-> <<"P","i","n","e">>] }

\* entries of the removal list: a common name, a species
RemovalPool ==
    { [wikidata |-> Q1, common_name |-> <<"W","h","i","t","e"," ","O","a","k">>],
      [wikidata |-> Q2, species |-> AcerRubrum] }

\* the lists of at most n members of pool
RECURSIVE listsOf(_, _)
listsOf(pool, n) ==
    IF n = 0 THEN {<<>>}
    ELSE {<<>>} \cup {<<x>> \o rest : x \in pool, rest \in listsOf(pool, n - 1)}

InitDict ==
    /\ pc = "reshape"
    /\ dictionary \in
          {pick(SpeciesPool, c, 1) :
              c \in {c \in SUBSET (1..Len(SpeciesPool)) : Cardinality(c) <= MaxSpecies}}
    /\ addtl_names \in listsOf(AdditionPool, MaxAdditions)
    /\ remove_name \in listsOf(RemovalPool, MaxRemovals)
    /\ termlist = <<>>
    /\ doc_sents = <<>>
    /\ doc_sections = <<>>
    /\ DictionaryAtRest
    /\ p_ents = <<>>
    /\ merged_ents = <<>>
    /\ merged_first = <<>>
    /\ runs = 0
    /\ ents = <<>>
    /\ tours = <<>>
    /\ pos = <<0, 0>>
    /\ k = <<>>
    /\ stops = <<>>
    /\ prev_stops = <<>>
    /\ last_p = <<>>
    /\ deletes = {}
    /\ final_stops = <<>>
    /\ kept = <<>>
    /\ raised = "none"
    /\ final_tree_species = <<>>

\* line 242
Reshape ==
    /\ pc = "reshape"
    /\ \E r \in reshapeWikidata(dictionary) :
          /\ dictionary' = r.tree_species
          /\ raised' = r.raised
          /\ pc' = IF r.raised # "none" THEN "raised" ELSE "additions"
    /\ UNCHANGED <<call, ret, ents, p_ents, merged_ents, merged_first, runs, tours, pos,
                   k, stops, prev_stops, last_p, deletes, final_stops, kept,
                   final_tree_species, addtl_names, remove_name, termlist, doc_sents,
                   doc_sections>>

\* lines 280-290
ApplyAdditions ==
    /\ pc = "additions"
    /\ dictionary' = addNames(dictionary, addtl_names)
    /\ pc' = "removals"
    /\ UNCHANGED <<call, ret, ents, p_ents, merged_ents, merged_first, runs, tours, pos,
                   k, stops, prev_stops, last_p, deletes, final_stops, kept, raised,
                   final_tree_species, addtl_names, remove_name, termlist, doc_sents,
                   doc_sections>>

\* lines 305-315
ApplyRemovals ==
    /\ pc = "removals"
    /\ dictionary' = applyRemovals(dictionary, remove_name).tree_species
    /\ raised' = applyRemovals(dictionary, remove_name).raised
    /\ pc' = IF raised' # "none" THEN "raised" ELSE "termlist"
    /\ UNCHANGED <<call, ret, ents, p_ents, merged_ents, merged_first, runs, tours, pos,
                   k, stops, prev_stops, last_p, deletes, final_stops, kept,
                   final_tree_species, addtl_names, remove_name, termlist, doc_sents,
                   doc_sections>>

\* lines 414-440
BuildTermlist ==
    /\ pc = "termlist"
    /\ LET r == buildTermlist(dictionary, 1, 1, <<>>)
       IN  /\ dictionary' = r.tree_species
           /\ termlist' = r.termlist
           /\ raised' = r.raised
           /\ pc' = IF r.raised # "none" THEN "raised" ELSE "patterns"
    /\ UNCHANGED <<call, ret, ents, p_ents, merged_ents, merged_first, runs, tours, pos,
                   k, stops, prev_stops, last_p, deletes, final_stops, kept,
                   final_tree_species, addtl_names, remove_name, doc_sents, doc_sections>>

NextDict == Reshape \/ ApplyAdditions \/ ApplyRemovals \/ BuildTermlist

SpecDict == InitDict /\ [][NextDict]_vars

-----------------------------------------------------------------------------
(* Claims about the species dictionary, checked under SpecDict.            *)

\* the termlist loop has ended, by reaching the end of the species list or
\* by an exception
termlistEnded == pc = "patterns" \/ (pc = "raised" /\ raised = "UnboundLocalError")

\* the rules of termlist are those of sequence rules, in order, somewhere
hasRules(rules) ==
    \E at \in 0..(Len(termlist) - Len(rules)) :
        SubSeq(termlist, at + 1, at + Len(rules)) = rules

\* C12: when the termlist loop has ended, nothing was raised, a term that is
\* the empty string (taxon, common or alternate name) has no rule in the
\* termlist, and every other term of every record has its rules there.  The
\* code raises UnboundLocalError in constructTerm on the first empty term,
\* so this is violated.
C12_EmptyNameDropped ==
    termlistEnded
    => /\ raised = "none"
       /\ \A i \in 1..Len(dictionary) :
             \A j \in 1..Len(termsOf(dictionary[i])) :
                LET t == termsOf(dictionary[i])[j]
                IN  IF t.term = <<>>
                    THEN \A r \in 1..Len(termlist) : termlist[r].pattern # <<>>
                    ELSE hasRules(constructTerm(t.term, t.label, dictionary[i].id))
-----------------------------------------------------------------------------
(* Claims about failures and order in process tours, checked under Spec.    *)

\* the non-empty groups of a paragraph createTitle gives a title for
titledGroups(p) ==
    {i \in 1..Len(p.merged_ents) :
        Len(p.merged_ents[i].ents) > 0 /\ createTitle(p.merged_ents[i].ents) # {}}

\* a group of the paragraph has neither a common name nor a species of the
\* dictionary
hasUntitled(p) ==
    \E i \in 1..Len(p.merged_ents) :
        Len(p.merged_ents[i].ents) > 0 /\ createTitle(p.merged_ents[i].ents) = {}

\* C13: when the title of one stop is undefined because its group yields
\* neither a species name nor a common name, only that stop is omitted: the
\* paragraph's other groups still give their stops and nothing is raised, so
\* that the run goes on to the end and to both exports.
C13_FailedStopIsolated ==
    (Len(last_p) = 1 /\ hasUntitled(last_p[1]))
    => /\ raised = "none"
       /\ pc # "raised"
       /\ Len(stops) = Len(prev_stops) + Cardinality(titledGroups(last_p[1]))

\* the text of the last paragraph that stands before its first 'TOUR'
beforeMarker == split(joinSents(last_p[1].sents), TOUR)[1]

\* the last iteration was for a tour paragraph without merged entities whose
\* text holds 'TOUR'
headerIteration ==
    /\ afterIteration
    /\ Len(last_p[1].merged_ents) = 0
    /\ contains(joinSents(last_p[1].sents), TOUR)

\* C16: for a tour paragraph with zero merged entities whose text contains
\* "TOUR", a header stop titled with the tour identifier is appended whose
\* excerpt starts at the marker, and the text of the paragraph before the
\* first marker is appended to the excerpt of the previous stop, so that it is
\* not lost.  Line 880 takes that text from the string that line 879 has
\* already cut at the marker, so it is always empty and this is violated.
C16_TextBeforeMarkerKept ==
    headerIteration
    => /\ Len(stops) = Len(prev_stops) + 1
       /\ startswith(stops[Len(stops)].title, TourPrefix)
       /\ startswith(stops[Len(stops)].excerpt, TOUR)
       /\ Len(prev_stops) > 0
       /\ strip(beforeMarker) # <<>>
          => contains(stops[Len(prev_stops)].excerpt, strip(beforeMarker))

\* the non-empty group of the last paragraph whose species the stop links
groupOf(stop) ==
    CHOOSE i \in 1..Len(last_p[1].merged_ents) :
        /\ Len(last_p[1].merged_ents[i].ents) > 0
        /\ nameOfId(last_p[1].merged_ents[i].id, tree_species) = stop.species

\* the smallest start offset of the mentions of group i of the last paragraph
minStart(i) == Min(startChars(last_p[1].merged_ents[i].ents))

\* the groups of the last paragraph none of whose entries has an offset
noOffset ==
    {i \in 1..Len(last_p[1].merged_ents) : startChars(last_p[1].merged_ents[i].ents) = {}}

\* the number of the tour a stop is in, 0 before the tours and 5 after them
tourOf(stop) ==
    IF \E t \in 1..Len(TourNames) : stop.tour = TourPrefix \o TourNames[t]
    THEN CHOOSE t \in 1..Len(TourNames) : stop.tour = TourPrefix \o TourNames[t]
    ELSE IF stop.tour = <<"I","n","t","r","o","d","u","c","t","i","o","n">> THEN 0
    ELSE 5

\* source order: the stops of an iteration come after all the stops that were
\* there, which stay in their places, and the tours of the list never go back
sourceOrder ==
    /\ Len(stops) >= Len(prev_stops)
    /\ \A i \in 1..Len(prev_stops) :
          /\ stops[i].title = prev_stops[i].title
          /\ stops[i].lead_in = prev_stops[i].lead_in
          /\ stops[i].tour = prev_stops[i].tour
    /\ \A i, j \in 1..Len(stops) : i <= j => tourOf(stops[i]) <= tourOf(stops[j])

\* the stops of the last paragraph are in ascending order of the smallest
\* start offset of their groups
offsetOrder ==
    \A i, j \in 1..Len(newStops) :
        i < j => minStart(groupOf(newStops[i])) <= minStart(groupOf(newStops[j]))

-----------------------------------------------------------------------------
(* Claims about the manual additions and the frozen dictionary, checked    *)
(* under SpecDict.                                                         *)

\* the members of a list
members(list) == {list[i] : i \in 1..Len(list)}

\* C19: after the addition list is applied, for every addition entry whose id
\* matches a species record, the record's common names contain the added
\* common name and its alternate spellings contain the added alternate
\* spelling; when two entries give different alternate spellings for one id,
\* both are there.  Line 290 assigns the list anew for each entry, so only
\* the last spelling is kept and this is violated.
C19_AdditionsApplied ==
    pc = "removals" =>
        \A i \in 1..Len(addtl_names) : \A j \in 1..Len(dictionary) :
            ("wikidata" \in DOMAIN dictionary[j]
             /\ dictionary[j].wikidata = addtl_names[i].wikidata)
            => /\ "common_name" \in DOMAIN addtl_names[i]
                  => addtl_names[i].common_name
                        \in members(valuesOf(dictionary[j], "common_names"))
               /\ "alt_species" \in DOMAIN addtl_names[i]
                  => addtl_names[i].alt_species
                        \in members(valuesOf(dictionary[j], "alt_species"))

\* the species dictionary is frozen: reshaping, additions and removals are
\* done and the rules are about to be, or have been, generated from it
frozen == pc \in {"termlist", "patterns"}

\* C20: in the frozen dictionary every record's common-name list is
\* title-cased and has no duplicate entries.  The names of the addition list
\* are appended as they are written, after the reshaping that title-cases
\* and deduplicates, so this is violated.
C20_CommonNamesNormalized ==
    frozen =>
        \A j \in 1..Len(dictionary) :
            LET names == valuesOf(dictionary[j], "common_names")
            IN  /\ \A i \in 1..Len(names) : names[i] = title(names[i])
                /\ Cardinality(members(names)) = Len(names)

\* the records the termlist loop has given an id
withId == {i \in 1..Len(dictionary) : "id" \in DOMAIN dictionary[i]}

\* the number of records without a Wikidata id among the first i
lacking(i) == Cardinality({j \in 1..i : "wikidata" \notin DOMAIN dictionary[j]})

\* C21: every species record is assigned an id: its Wikidata id when it has
\* one, otherwise "x" + n where n counts 1, 2, 3, ... over the records without
\* one; the fallback ids are pairwise distinct and differ from the id of
\* every record that has a Wikidata id.
C21_RecordIds ==
    termlistEnded =>
        /\ pc = "patterns" => withId = 1..Len(dictionary)
        /\ \A i \in withId :
              dictionary[i].id = IF "wikidata" \in DOMAIN dictionary[i]
                                 THEN dictionary[i].wikidata
                                 ELSE <<"x", digits[lacking(i)]>>
        /\ \A i, j \in withId :
              (i # j /\ "wikidata" \notin DOMAIN dictionary[i])
              => dictionary[i].id # dictionary[j].id

\* C21 witness: the loop ran to its end over two records without a Wikidata
\* id, which are x1 and x2
C21_Witness ==
    /\ pc = "patterns"
    /\ Len(dictionary) = 2
    /\ \A i \in 1..2 : "wikidata" \notin DOMAIN dictionary[i]
    /\ dictionary[1].id = <<"x", "1">>
    /\ dictionary[2].id = <<"x", "2">>

-----------------------------------------------------------------------------
(* Claims about the carried-forward text, the tour headers and the links   *)
(* between the two exports, checked under Spec.                            *)

\* the last iteration was for a tour paragraph without merged entities and
\* without 'TOUR', with a stop before it
carriedForward ==
    /\ Len(last_p) = 1
    /\ Len(last_p[1].merged_ents) = 0
    /\ ~contains(joinSents(last_p[1].sents), TOUR)
    /\ Len(prev_stops) > 0

\* stop i was made from another paragraph than the last stop: the text of
\* its paragraph is another one
otherParagraph(i) ==
    LET own == stripMarkup(prev_stops[i].excerpt)
        last == stripMarkup(prev_stops[Len(prev_stops)].excerpt)
    IN  ~startswith(own, last) /\ ~startswith(last, own)

\* C22: appendNoEntPara appends the text of the paragraph without entities
\* to exactly the trailing stops that were split from the same paragraph as
\* the last stop: a stop made from another paragraph is never modified, even
\* when its first 35 characters are the same, and the walk back over the
\* stops of equal lead-in ends inside the list.  The walk compares lead-ins
\* only, and the lead-in is the head of the first sentence, so this is
\* violated.
C22_SameParagraphOnly ==
    carriedForward
    => /\ raised # "IndexError"
       /\ \A i \in 1..Len(prev_stops) :
             otherParagraph(i) => stops[i] = prev_stops[i]

\* the stops titled as the header of tour t
headersOf(t) == {i \in 1..Len(stops) : stops[i].title = TourPrefix \o TourNames[t]}

\* the stops of tour t that link a species
speciesStopsOf(t) ==
    {i \in 1..Len(stops) :
        stops[i].tour = TourPrefix \o TourNames[t] /\ "species" \in DOMAIN stops[i]}

\* C23: for each of the four tours the stop list has exactly one header stop
\* titled "TOUR <n>", n the tour's identifier, and it stands before every
\* species stop of that tour, also when the paragraph with the "TOUR" marker
\* has merged entity groups.  The header is only made in the branch for
\* paragraphs without merged entities (lines 869-885), so this is violated.
C23_TourHeaders ==
    pc = "back_matter" =>
        \A t \in 1..Len(TourNames) :
            /\ Cardinality(headersOf(t)) = 1
            /\ \A h \in headersOf(t) : \A i \in speciesStopsOf(t) : h < i

\* C24: every stop created from a merged entity group has a non-empty linked
\* species, and the species of every stop of the final stop export is the
\* Species field of some row of the species export.  For a group whose id the
\* dictionary does not have, getSpecies returns None (line 738), so this is
\* violated.
C24_LinkedSpeciesExported ==
    /\ \A i \in 1..Len(stops) :
          "species" \in DOMAIN stops[i] => stops[i].species \notin {None, <<>>}
    /\ pc = "done" => linked \subseteq exportedNames

====
